---- MODULE Spec2Model ----
(***************************************************************************)
(* A model of the MX compiler middle-end: the scope stack                  *)
(* (SymbolTableSet / ComptimeEnv), the semantic analyzer (Sema) lowering   *)
(* an AST pool to MXIR, and the tree-walking interpreter.                  *)
(*                                                                         *)
(* References (AstNodeRef, MxirNodeRef, SymbolTableRef) are 0-based as in  *)
(* the source; the vector element with reference r is seq[r + 1].          *)
(* Option<T> is [some |-> FALSE] / [some |-> TRUE, v |-> x]; an optional   *)
(* reference is NoRef when absent.                                         *)
(***************************************************************************)
EXTENDS Integers, Sequences, FiniteSets, TLC

VARIABLES
    env,        \* SpecEnv: the ComptimeEnv under test
    call,       \* SpecEnv: the last ComptimeEnv operation and what it returned
    file,       \* the ParsedSourceFile handed to Sema: [path, ast, diagnostics]
    sema,       \* Sema: [env, mxir, diagnostics, panicked, ct_evals]
    stmts,      \* analyze_source_file: the statements collected for slot 0
    interp,     \* Interpreter: [symbols, frames, panicked]
    exit_value, \* execute: None until main was called, then Some(its value)
    cli,        \* the command of the driver that ran, and the exit status
    unit,       \* SpecUnit: the source-file object a client holds and updates
    server,     \* SpecServer: the language server and its handlers
    pc          \* where the pipeline is

envVars == <<env, call>>
interpVars == <<interp, exit_value, cli>>
semaVars == <<file, sema, stmts, pc>>
shellVars == <<unit, server>>
vars == <<env, call, file, sema, stmts, interp, exit_value, cli, unit, server, pc>>

(***************************************************************************)
(* Option values                                                           *)
(***************************************************************************)
None == [some |-> FALSE]
Some(x) == [some |-> TRUE, v |-> x]
NoRef == -1

(***************************************************************************)
(* Bounds                                                                  *)
(***************************************************************************)
MaxTables == 3       \* SpecEnv: scopes pushed in one run
MaxBindings == 3     \* SpecEnv: bindings held by all tables together
MaxTop == 3          \* top-level declarations of a program
MaxParams == 2       \* parameters in one parameter list
MaxDigits == 2       \* characters of an integer literal
MaxNest == 2         \* SpecInterp: constructs nested around a statement

(***************************************************************************)
(* SymbolTableSet (symbol_table.rs)                                        *)
(***************************************************************************)
EmptyMembers == [n \in {} |-> None]

SymbolTable_new(parent, data) ==
    [data |-> data, parent |-> parent, members |-> EmptyMembers]

\* HashMap::insert: the value under an existing key is replaced
SymbolTable_insert(table, name, val) ==
    [table EXCEPT !.members =
        [n \in (DOMAIN table.members) \cup {name} |->
            IF n = name THEN val ELSE table.members[n]]]

SymbolTable_get(table, name) ==
    IF name \in DOMAIN table.members THEN Some(table.members[name]) ELSE None

SymbolTableSet_new == [tables |-> <<>>, stack |-> <<>>]

current_table_ref(e) ==
    IF e.stack = <<>> THEN NoRef ELSE e.stack[Len(e.stack)]

\* parent is the table on top of the active stack, not the last one allocated
push_table_last_allocated(e, table_data) ==
    [tables |-> Append(e.tables,
                    SymbolTable_new(Len(e.tables) - 1, table_data)),
     stack  |-> Append(e.stack, Len(e.tables))]

push_table(e, table_data) ==
    [tables |-> Append(e.tables,
                    SymbolTable_new(current_table_ref(e), table_data)),
     stack  |-> Append(e.stack, Len(e.tables))]

pop_table(e) ==
    [e EXCEPT !.stack =
        IF e.stack = <<>> THEN <<>> ELSE SubSeq(e.stack, 1, Len(e.stack) - 1)]

insert(e, name, val) ==
    IF current_table_ref(e) = NoRef THEN e
    ELSE [e EXCEPT !.tables[current_table_ref(e) + 1] =
                SymbolTable_insert(@, name, val)]

\* get that reads the parent of the current table
get_from_parent(e, name) ==
    IF current_table_ref(e) = NoRef THEN None
    ELSE IF e.tables[current_table_ref(e) + 1].parent = NoRef THEN None
    ELSE SymbolTable_get(
            e.tables[e.tables[current_table_ref(e) + 1].parent + 1], name)

get(e, name) ==
    IF current_table_ref(e) = NoRef THEN None
    ELSE SymbolTable_get(e.tables[current_table_ref(e) + 1], name)

\* the loop of lookup: the table a name is found in, walking parent links
RECURSIVE lookup_walk(_, _, _)
lookup_walk(e, table_ref, name) ==
    LET current_table == e.tables[table_ref + 1] IN
    IF SymbolTable_get(current_table, name).some THEN table_ref
    ELSE IF current_table.parent # NoRef
         THEN lookup_walk(e, current_table.parent, name)
         ELSE NoRef

\* lookup that stops at the top table (no parent walk)
lookup_table_top_only(e, name) ==
    IF current_table_ref(e) = NoRef THEN NoRef
    ELSE IF get(e, name).some THEN current_table_ref(e) ELSE NoRef

lookup_table(e, name) ==
    IF current_table_ref(e) = NoRef THEN NoRef
    ELSE lookup_walk(e, current_table_ref(e), name)

lookup(e, name) ==
    IF lookup_table(e, name) = NoRef THEN None
    ELSE SymbolTable_get(e.tables[lookup_table(e, name) + 1], name)

(***************************************************************************)
(* ComptimeValue and ComptimeEnv (comptime.rs)                             *)
(***************************************************************************)
Undefined == [t |-> "Undefined"]
Type == [t |-> "Type"]
ComptimeInt(n) == [t |-> "ComptimeInt", v |-> n]
ComptimeString(s) == [t |-> "ComptimeString", v |-> s]
CtFnDecl(name, comptime_params, params, return_type, body_ref) ==
    [t |-> "FnDecl", name |-> name, comptime_params |-> comptime_params,
     params |-> params, return_type |-> return_type, body_ref |-> body_ref]
CtFnProto(comptime_params, params, return_type) ==
    [t |-> "FnProto", comptime_params |-> comptime_params,
     params |-> params, return_type |-> return_type]
CtVarDecl(name, ty, value_ref) ==
    [t |-> "VarDecl", name |-> name, ty |-> ty, value_ref |-> value_ref]
ParamDecl(name, ty) == [name |-> name, ty |-> ty]
ComptimeBinding(node_ref, ty, value) ==
    [node_ref |-> node_ref, ty |-> ty, value |-> value]

ComptimeEnv_new == SymbolTableSet_new
push_scope(e, range) == push_table(e, range)
pop_scope(e) == pop_table(e)

\* Each declare_* returns the environment and the Result of the call.
Declared(e, ok) == [env |-> e, ok |-> ok]

\* declare without the duplicate check: the binding is overwritten
declare_unchecked(e, name, binding) == Declared(insert(e, name, binding), TRUE)

declare(e, name, binding) ==
    IF get(e, name).some THEN Declared(e, FALSE)
    ELSE Declared(insert(e, name, binding), TRUE)

declare_fn(e, node_ref, name, comptime_params, params, return_type, body_ref) ==
    declare(e, name,
        ComptimeBinding(node_ref, None,
            CtFnDecl(name, comptime_params, params, return_type, body_ref)))

declare_const(e, node_ref, name, ty, value) ==
    declare(e, name, ComptimeBinding(node_ref, ty, value))

declare_var(e, node_ref, name, ty, value_ref) ==
    declare(e, name,
        ComptimeBinding(node_ref, ty, CtVarDecl(name, ty, value_ref)))

(***************************************************************************)
(* AST pool (ast.rs) and the parser's tree walk (parser.rs)                *)
(*                                                                         *)
(* A syntax tree handed over by the grammar engine is                      *)
(* [kind, text, kids], kids a sequence of [field, tree] with field "" for  *)
(* a child without a field name.  A text (a Rust String taken from the     *)
(* source) is the sequence of its characters, so that parsing a literal is *)
(* a computation.  A range is <<first, last>>: the pre-order positions of  *)
(* the node and of its last descendant.                                    *)
(***************************************************************************)
S_main == <<"m", "a", "i", "n">>
S_anonymous == <<"<", "a", "n", "o", "n", "y", "m", "o", "u", "s", ">">>

Tree(kind, text, kids) == [kind |-> kind, text |-> text, kids |-> kids]
Kid(field, tree) == [field |-> field, tree |-> tree]

RECURSIVE TreeSize(_)
RECURSIVE KidsSize(_, _)
TreeSize(tree) == 1 + KidsSize(tree.kids, 1)
KidsSize(kids, i) ==
    IF i > Len(kids) THEN 0
    ELSE TreeSize(kids[i].tree) + KidsSize(kids, i + 1)

\* the field names of the grammar; named_children maps a field the node
\* does not have to NoRef
FieldNames ==
    {"proto", "name", "comptime_params", "params", "return_type", "body",
     "type", "value", "expr", "callee"}

AstNode(self_ref, kind, range, text) ==
    [self_ref |-> self_ref, kind |-> kind, range |-> range, text |-> text,
     children |-> <<>>, named_children |-> [f \in FieldNames |-> NoRef]]

\* walk_tree: push the node, then walk the named children in order, adding
\* each to `children` and, when it has a field name, to `named_children`
RECURSIVE walk_tree(_, _)
RECURSIVE walk_children(_, _, _, _)
add_child(w, node_ref, field) ==
    [w.ast EXCEPT ![node_ref + 1].children = Append(@, w.ref),
                  ![node_ref + 1].named_children =
                      IF field = "" THEN @ ELSE [@ EXCEPT ![field] = w.ref]]
walk_tree(ast, tree) ==
    [ref |-> Len(ast),
     ast |-> walk_children(
                Append(ast, AstNode(Len(ast), tree.kind,
                                    <<Len(ast), Len(ast) + TreeSize(tree) - 1>>,
                                    tree.text)),
                Len(ast), tree.kids, 1)]
walk_children(ast, node_ref, kids, i) ==
    IF i > Len(kids) THEN ast
    ELSE walk_children(add_child(walk_tree(ast, kids[i].tree), node_ref, kids[i].field),
                       node_ref, kids, i + 1)

parse(tree) == walk_tree(<<>>, tree).ast

(***************************************************************************)
(* MXIR (mxir.rs)                                                          *)
(***************************************************************************)
MxirNode(self_ref, ast_node, data) ==
    [self_ref |-> self_ref, ast_node |-> ast_node, data |-> data]

MxirSourceFile(children) == [k |-> "SourceFile", children |-> children]
MxirNop(msg) == [k |-> "Nop", msg |-> msg]
MxirFnDecl(name, body) == [k |-> "FnDecl", name |-> name, body |-> body]
MxirVarDecl(name, ty, value) ==
    [k |-> "VarDecl", name |-> name, ty |-> ty, value |-> value]
MxirExprStmt(expr) == [k |-> "ExprStmt", expr |-> expr]
MxirReturn(expr) == [k |-> "Return", expr |-> expr]
MxirBlock(children) == [k |-> "Block", children |-> children]
MxirIntLiteral(value) == [k |-> "IntLiteral", value |-> value]
MxirStringLiteral(value) == [k |-> "StringLiteral", value |-> value]
MxirBoolLiteral(value) == [k |-> "BoolLiteral", value |-> value]
MxirVarExpr(name) == [k |-> "VarExpr", name |-> name]
MxirCallExpr(fn_decl_ref, args) ==
    [k |-> "CallExpr", fn_decl_ref |-> fn_decl_ref, args |-> args]
\* fn_ is a fn() -> (): it has no access to the interpreter
MxirBuiltinFnDecl(name) == [k |-> "BuiltinFnDecl", name |-> name]
MxirLoop(body) == [k |-> "Loop", body |-> body]
MxirIf(condition, then_branch, else_branch) ==
    [k |-> "If", condition |-> condition, then_branch |-> then_branch,
     else_branch |-> else_branch]
MxirBreak == [k |-> "Break"]
MxirContinue == [k |-> "Continue"]
MxirAssign(lhs, rhs) == [k |-> "Assign", lhs |-> lhs, rhs |-> rhs]

(***************************************************************************)
(* Diagnostics (diag.rs)                                                   *)
(***************************************************************************)
DiagnosticKind(k) == [k |-> k]
SymbolNotFound(name) == [k |-> "SymbolNotFound", name |-> name]
SyntaxErrorExpectedToken(token) ==
    [k |-> "SyntaxErrorExpectedToken", token |-> token]
Diagnostic(path, range, kind) == [path |-> path, range |-> range, kind |-> kind]

\* `let v = ...;` followed by the rest of the function is written
\* Only({rest : v \in {...}}): v is computed once, before the rest runs.
\* Consecutive lets nest, so the first one of the function is the last
\* `: v \in {...}` line of the definition.
Only(S) == CHOOSE x \in S : TRUE

\* the diagnostics of the parser (parser.rs:71-80, 100-122)
\* a block whose "end" token is not `}`: the text of a block node is its
\* braces, the statements between them left out
check_extra_errors(n) ==
    IF n.kind = "block" /\ (n.text = <<>> \/ n.text[Len(n.text)] # "}")
    THEN <<Diagnostic("", n.range, SyntaxErrorExpectedToken("}"))>>
    ELSE <<>>

RECURSIVE parse_diagnostics(_, _, _)
\* the diagnostics walk_tree pushes: one node at a time, in the order the
\* nodes are pushed
parse_diagnostics(path, ast, r) ==
    IF r >= Len(ast) THEN <<>>
    ELSE (IF ast[r + 1].kind = "ERROR"
          THEN <<Diagnostic(path, ast[r + 1].range, DiagnosticKind("SyntaxError"))>>
          ELSE <<>>)
         \o check_extra_errors(ast[r + 1])
         \o parse_diagnostics(path, ast, r + 1)

\* UnparsedSourceFile::new(path, src).parse()
ParsedSourceFile(path, tree) ==
    Only({
        [path |-> path, ast |-> ast, diagnostics |-> parse_diagnostics(path, ast, 0)]
          : ast \in {parse(tree)}})

(***************************************************************************)
(* Sema (sema.rs).  Every lowering function takes the analyzer state       *)
(* s = [env, mxir, diagnostics, panicked] and returns the new state with   *)
(* its result.  A panic (a failed expect/unwrap/assert) sets s.panicked;   *)
(* nothing changes the state after that.                                   *)
(***************************************************************************)
Sema_new ==
    [env |-> ComptimeEnv_new, mxir |-> <<>>, diagnostics |-> <<>>,
     panicked |-> FALSE, ct_evals |-> <<>>]

node(node_ref) == file.ast[node_ref + 1]
node_range(node_ref) == node(node_ref).range
child(n, field) == n.named_children[field]

Ref(s, ref) == [s |-> s, ref |-> ref]
Val(s, value) == [s |-> s, value |-> value]
Params(s, params) == [s |-> s, params |-> params]
panic(s) == [s EXCEPT !.panicked = TRUE]

\* emit whose self_ref is one past the slot the node is stored in
emit_off_by_one(s, ast_node, data) ==
    IF s.panicked THEN Ref(s, NoRef)
    ELSE Ref([s EXCEPT !.mxir =
                Append(@, MxirNode(Len(s.mxir) + 1, ast_node, data))],
             Len(s.mxir))

emit(s, ast_node, data) ==
    IF s.panicked THEN Ref(s, NoRef)
    ELSE Ref([s EXCEPT !.mxir =
                Append(@, MxirNode(Len(s.mxir), ast_node, data))],
             Len(s.mxir))

\* an emit_nop that emits a Continue node for what is not lowered
emit_nop_as_continue(s, ast_node, msg) == emit(s, ast_node, MxirContinue)

emit_nop(s, ast_node, msg) == emit(s, ast_node, MxirNop(msg))

report(s, node_ref, diag_kind) ==
    IF s.panicked THEN s
    ELSE [s EXCEPT !.diagnostics =
            Append(@, Diagnostic(file.path, node(node_ref).range, diag_kind))]

sema_push_scope(s, range) ==
    IF s.panicked THEN s ELSE [s EXCEPT !.env = push_scope(@, range)]
sema_pop_scope(s) ==
    IF s.panicked THEN s ELSE [s EXCEPT !.env = pop_scope(@)]

\* str::parse::<i128> on the characters of a literal
DigitChars == {"0", "1", "2", "3", "4", "5", "6", "7", "8", "9"}
DigitValue(c) ==
    CASE c = "0" -> 0 [] c = "1" -> 1 [] c = "2" -> 2 [] c = "3" -> 3
      [] c = "4" -> 4 [] c = "5" -> 5 [] c = "6" -> 6 [] c = "7" -> 7
      [] c = "8" -> 8 [] c = "9" -> 9
RECURSIVE parse_digits(_, _, _)
parse_digits(text, i, acc) ==
    IF i > Len(text) THEN acc
    ELSE parse_digits(text, i + 1, acc * 10 + DigitValue(text[i]))
parse_i128(text) ==
    IF text = <<>> \/ \E i \in 1..Len(text) : text[i] \notin DigitChars
    THEN None
    ELSE Some(parse_digits(text, 1, 0))

RECURSIVE analyze_node(_, _)
RECURSIVE analyze_body_from(_, _, _, _)
RECURSIVE analyze_expr(_, _)
RECURSIVE comptime_eval_comptime_expr(_, _)
RECURSIVE bind_params_from(_, _, _, _, _, _)
RECURSIVE analyze_resolved_fn_call(_, _, _, _, _)

\* the loop shared by bind_comptime_params (bind = TRUE) and extract_params
\* (bind = FALSE): param_names is the HashSet of the names seen so far
bind_params_from(s, children, i, param_names, params, bind) ==
    IF i > Len(children) \/ s.panicked THEN Params(s, params)
    ELSE
    LET param_node_ref == children[i]
        param_node == node(param_node_ref)
        param_name_ref == child(param_node, "name")
        param_type_ref == child(param_node, "type")
    IN  IF param_name_ref = NoRef \/ param_type_ref = NoRef
        THEN Params(panic(s), params)
        ELSE
        LET param_name == node(param_name_ref).text
            s1 == IF param_name \in param_names
                  THEN report(s, param_name_ref,
                              DiagnosticKind("DuplicateParamName"))
                  ELSE s
        IN  Only({
            bind_params_from(
                IF bind /\ ~ty.s.panicked
                THEN [ty.s EXCEPT !.env =
                        declare_const(@, param_node_ref, param_name,
                                      Some(ty.value), ty.value).env]
                ELSE ty.s,
                children, i + 1,
                param_names \cup {param_name},
                Append(params, ParamDecl(param_name, ty.value)),
                bind)
                  : ty \in {comptime_eval_comptime_expr(s1, param_type_ref)}})

param_list_children(proto_ref, param_list_field) ==
    IF child(node(proto_ref), param_list_field) = NoRef THEN <<>>
    ELSE node(child(node(proto_ref), param_list_field)).children

bind_comptime_params(s, proto_ref, param_list_field) ==
    bind_params_from(s, param_list_children(proto_ref, param_list_field),
                     1, {}, <<>>, TRUE)

extract_params(s, proto_ref, param_list_field) ==
    bind_params_from(s, param_list_children(proto_ref, param_list_field),
                     1, {}, <<>>, FALSE)

\* history: one entry per call of comptime_eval_comptime_expr that has
\* returned, with the MXIR and the environment at the call and at the return
ct_evaluated(before, after, node_ref) ==
    IF after.panicked THEN after
    ELSE [after EXCEPT !.ct_evals =
            Append(@, [node_ref |-> node_ref,
                       mxir_before |-> before.mxir, mxir_after |-> after.mxir,
                       env_before |-> before.env, env_after |-> after.env])]

\* comptime_eval_fn_proto that leaves its scope on the stack
comptime_eval_fn_proto_keeps_scope(s, expr_node_ref) ==
    LET expr_node == node(expr_node_ref)
        return_type_ref == child(expr_node, "return_type")
    IN  Only({
        Only({
        IF return_type_ref = NoRef THEN Val(panic(ps.s), Undefined)
        ELSE Only({
             Val(rt.s, CtFnProto(cps.params, ps.params, rt.value))
                   : rt \in {comptime_eval_comptime_expr(ps.s,
                             return_type_ref)}})
              : ps \in {extract_params(cps.s, expr_node_ref, "params")}})
              : cps \in {bind_comptime_params(sema_push_scope(s,
                         expr_node.range), expr_node_ref, "comptime_params")}})

comptime_eval_fn_proto(s, expr_node_ref) ==
    LET expr_node == node(expr_node_ref)
        return_type_ref == child(expr_node, "return_type")
    IN  Only({
        Only({
        IF return_type_ref = NoRef THEN Val(panic(ps.s), Undefined)
        ELSE Only({
             Val(sema_pop_scope(rt.s),
                 CtFnProto(cps.params, ps.params, rt.value))
                   : rt \in {comptime_eval_comptime_expr(ps.s,
                             return_type_ref)}})
              : ps \in {extract_params(cps.s, expr_node_ref, "params")}})
              : cps \in {bind_comptime_params(sema_push_scope(s,
                         expr_node.range), expr_node_ref, "comptime_params")}})

comptime_eval_comptime_expr(s, node_ref) ==
    IF s.panicked THEN Val(s, Undefined)
    ELSE IF node(node_ref).kind # "comptime_expr" THEN Val(panic(s), Undefined)
    ELSE IF child(node(node_ref), "expr") = NoRef THEN Val(panic(s), Undefined)
    ELSE
    LET n == node(node_ref)
        expr_node_ref == child(n, "expr")
        expr_node == node(expr_node_ref)
    IN  Only({
        Val(ct_evaluated(s, r.s, node_ref), r.value)
          : r \in {
        CASE expr_node.kind = "int_literal" ->
                IF parse_i128(n.text).some
                THEN Val(s, ComptimeInt(parse_i128(n.text).v))
                ELSE Val(panic(s), Undefined)
          [] expr_node.kind = "string_literal" ->
                Val(s, ComptimeString(n.text))
          [] expr_node.kind = "variable_expr" ->
                IF lookup(s.env, expr_node.text).some
                THEN Val(s, lookup(s.env, expr_node.text).v.value)
                ELSE Val(report(s, expr_node_ref,
                                SymbolNotFound(expr_node.text)),
                         Undefined)
          [] expr_node.kind = "fn_proto" ->
                comptime_eval_fn_proto(s, expr_node_ref)
          [] OTHER -> Val(panic(s), Undefined)}})

analyze_fn_decl(s, node_ref) ==
    LET n == node(node_ref)
        proto_ref == child(n, "proto")
    IN  IF proto_ref = NoRef THEN Ref(panic(s), NoRef)
        ELSE
        LET proto_node == node(proto_ref)
            name_ref == child(proto_node, "name")
            name == IF name_ref # NoRef THEN node(name_ref).text
                    ELSE S_anonymous
            s0 == IF name_ref # NoRef THEN s
                  ELSE report(s, node_ref, DiagnosticKind("MissingFunctionName"))
            s1 == sema_push_scope(s0, proto_node.range)
            return_type_ref == child(proto_node, "return_type")
            body_ref == child(n, "body")
        IN  Only({
            Only({
            IF return_type_ref = NoRef THEN Ref(panic(params.s), NoRef)
            ELSE
            Only({
            IF body_ref = NoRef THEN Ref(panic(return_type.s), NoRef)
            ELSE
            LET s2 == sema_pop_scope(return_type.s)
                d == declare_fn(s2.env, node_ref, name,
                                comptime_params.params, params.params,
                                return_type.value, body_ref)
                s3 == IF name = S_anonymous \/ s2.panicked THEN s2
                      ELSE IF d.ok THEN [s2 EXCEPT !.env = d.env]
                      ELSE report(s2, node_ref,
                                  DiagnosticKind("DuplicateDefinition"))
            IN  emit_nop(s3, node_ref, "fn_decl")
                  : return_type \in {comptime_eval_comptime_expr(params.s,
                                     return_type_ref)}})
                  : params \in {extract_params(comptime_params.s, proto_ref,
                                "params")}})
                  : comptime_params \in {bind_comptime_params(s1, proto_ref,
                                         "comptime_params")}})

\* `if let Some(ty_ref) = ..."type" { Some(comptime_eval_comptime_expr) }`
optional_type(s, ty_ref) ==
    IF ty_ref # NoRef
    THEN Only({
             Val(t.s, Some(t.value))
               : t \in {comptime_eval_comptime_expr(s, ty_ref)}})
    ELSE Val(s, None)

analyze_const_decl(s, node_ref) ==
    LET n == node(node_ref)
        name_ref == child(n, "name")
        ty_ref == child(n, "type")
        value_ref == child(n, "value")
    IN  IF name_ref = NoRef THEN Ref(panic(s), NoRef)
        ELSE
        Only({
        IF value_ref = NoRef THEN Ref(panic(ty.s), NoRef)
        ELSE
        Only({
        LET d == declare_const(value.s.env, node_ref, node(name_ref).text,
                               ty.value, value.value)
            s1 == IF value.s.panicked THEN value.s
                  ELSE IF d.ok THEN [value.s EXCEPT !.env = d.env]
                  ELSE report(value.s, node_ref,
                              DiagnosticKind("DuplicateDefinition"))
        IN  emit_nop(s1, node_ref, n.kind)
              : value \in {comptime_eval_comptime_expr(ty.s, value_ref)}})
              : ty \in {optional_type(s, ty_ref)}})

analyze_var_decl(s, node_ref) ==
    LET n == node(node_ref)
        name_ref == child(n, "name")
        ty_ref == child(n, "type")
        value_ref == child(n, "value")
    IN  IF name_ref = NoRef THEN Ref(panic(s), NoRef)
        ELSE
        Only({
        Only({
        LET name == node(name_ref).text
            s1 == mxir_value.s
            d == declare_var(s1.env, node_ref, name, ty.value, value_ref)
        IN  IF s1.panicked THEN Ref(s1, NoRef)
            ELSE IF ~d.ok
            THEN emit_nop(report(s1, node_ref,
                                 DiagnosticKind("DuplicateDefinition")),
                          node_ref, "duplicate definition")
            ELSE emit([s1 EXCEPT !.env = d.env], node_ref,
                      MxirVarDecl(name, ty.value, mxir_value.ref))
              : mxir_value \in {IF value_ref # NoRef THEN analyze_expr(ty.s,
                                value_ref) ELSE Ref(ty.s, NoRef)}})
              : ty \in {optional_type(s, ty_ref)}})

\* analyze_body: lower the children in order, collecting their refs
analyze_body_from(s, children, i, acc) ==
    IF i > Len(children) \/ s.panicked THEN [s |-> s, stmts |-> acc]
    ELSE Only({
             analyze_body_from(r.s, children, i + 1, Append(acc, r.ref))
               : r \in {analyze_node(s, children[i])}})

analyze_body(s, node_ref) ==
    analyze_body_from(s, node(node_ref).children, 1, <<>>)

\* a Block emitted before its children are lowered (children refs larger)
analyze_block_emit_first(s, node_ref) ==
    Only({
        IF body.s.panicked THEN Ref(body.s, NoRef)
        ELSE Ref([sema_pop_scope(body.s) EXCEPT !.mxir[Len(s.mxir) + 1].data =
                        MxirBlock(body.stmts)],
                 Len(s.mxir))
          : body \in {analyze_body(emit_nop(sema_push_scope(s,
                      node(node_ref).range), node_ref, "reserved").s,
                      node_ref)}})

analyze_block(s, node_ref) ==
    Only({
        emit(sema_pop_scope(body.s), node_ref, MxirBlock(body.stmts))
          : body \in {analyze_body(sema_push_scope(s, node(node_ref).range),
                      node_ref)}})

analyze_expr_stmt(s, node_ref) ==
    IF child(node(node_ref), "expr") = NoRef THEN Ref(panic(s), NoRef)
    ELSE Only({
             emit(expr.s, node_ref, MxirExprStmt(expr.ref))
               : expr \in {analyze_expr(s, child(node(node_ref), "expr"))}})

analyze_return_stmt(s, node_ref) ==
    IF child(node(node_ref), "expr") # NoRef
    THEN Only({
             emit(expr.s, node_ref, MxirReturn(expr.ref))
               : expr \in {analyze_expr(s, child(node(node_ref), "expr"))}})
    ELSE emit(s, node_ref, MxirReturn(NoRef))

analyze_comptime_value(value) ==
    CASE value.t = "VarDecl" -> Some(MxirVarExpr(value.name))
      [] value.t = "ComptimeInt" -> Some(MxirIntLiteral(value.v))
      [] value.t = "ComptimeBool" -> Some(MxirBoolLiteral(value.v))
      [] value.t = "ComptimeString" -> Some(MxirStringLiteral(value.v))
      [] OTHER -> None

analyze_variable_expr(s, node_ref) ==
    LET name == node(node_ref).text
        binding == lookup(s.env, name)
    IN  IF binding.some
        THEN IF analyze_comptime_value(binding.v.value).some
             THEN emit(s, node_ref, analyze_comptime_value(binding.v.value).v)
             ELSE emit_nop(s, node_ref, "unhandled comptime value")
        ELSE emit_nop(s, node_ref, "undefined variable")

analyze_call_expr(s, node_ref) ==
    LET callee_node_ref == child(node(node_ref), "callee") IN
    IF callee_node_ref = NoRef THEN Ref(panic(s), NoRef)
    ELSE Only({
             emit_nop(analyze_resolved_fn_call(callee_value.s, node_ref,
                            callee_value.value, <<>>, <<>>).s,
                      node_ref, "unhandled comptime value 1")
               : callee_value \in {comptime_eval_comptime_expr(s,
                                   callee_node_ref)}})

analyze_int_literal(s, node_ref) ==
    IF parse_i128(node(node_ref).text).some
    THEN emit(s, node_ref, MxirIntLiteral(parse_i128(node(node_ref).text).v))
    ELSE Ref(panic(s), NoRef)

analyze_string_literal(s, node_ref) ==
    emit(s, node_ref, MxirStringLiteral(node(node_ref).text))

analyze_expr(s, node_ref) ==
    IF s.panicked THEN Ref(s, NoRef)
    ELSE LET kind == node(node_ref).kind IN
         CASE kind = "variable_expr" -> analyze_variable_expr(s, node_ref)
           [] kind = "call_expr" -> analyze_call_expr(s, node_ref)
           [] kind = "int_literal" -> analyze_int_literal(s, node_ref)
           [] kind = "string_literal" -> analyze_string_literal(s, node_ref)
           [] OTHER -> emit_nop(s, node_ref, kind)

analyze_resolved_fn_call(s, node_ref, binding, comptime_args, args) ==
    IF s.panicked THEN Ref(s, NoRef)
    ELSE IF binding.t = "FnDecl"
    THEN LET s1 == sema_push_scope(s, node_range(node_ref)) IN
         IF Len(binding.comptime_params) # Len(comptime_args)
         THEN emit_nop(report(s1, node_ref,
                              DiagnosticKind("InvalidFunctionCall")),
                       node_ref, "invalid function call")
         ELSE
         LET n == node(node_ref)
             proto_node_ref == child(n, "proto")
         IN  IF proto_node_ref = NoRef THEN Ref(panic(s1), NoRef)
             ELSE IF child(node(proto_node_ref), "name") = NoRef
                     \/ child(n, "body") = NoRef
             THEN Ref(panic(s1), NoRef)
             ELSE
             Only({
             Only({
                 Ref(sema_pop_scope(fn_decl.s), fn_decl.ref)
                   : fn_decl \in {emit(mxir_body.s, 0,
                                  MxirFnDecl(node(child(node(proto_node_ref),
                                  "name")).text, mxir_body.ref))}})
                   : mxir_body \in {analyze_node(s1, child(n, "body"))}})
    ELSE emit_nop(report(s, node_ref, DiagnosticKind("InvalidFunctionCall")),
                  node_ref, "invalid function call")

analyze_node(s, node_ref) ==
    IF s.panicked THEN Ref(s, NoRef)
    ELSE LET kind == node(node_ref).kind IN
         CASE kind = "fn_decl" -> analyze_fn_decl(s, node_ref)
           [] kind = "const_decl" -> analyze_const_decl(s, node_ref)
           [] kind = "var_decl" -> analyze_var_decl(s, node_ref)
           [] kind = "block" -> analyze_block(s, node_ref)
           [] kind = "expr_stmt" -> analyze_expr_stmt(s, node_ref)
           [] kind = "return_stmt" -> analyze_return_stmt(s, node_ref)
           [] OTHER -> emit_nop(s, node_ref, kind)

(***************************************************************************)
(* Interpreter (interpreter.rs).  Every eval function takes the            *)
(* interpreter state i and returns [i, value, flow]: the new state, the    *)
(* Option<InterpreterValue> and the ControlFlow of the source's pair.  The *)
(* MXIR read is sema.mxir.                                                 *)
(*   symbols, frames  the fields of struct Interpreter                     *)
(*   panicked         evaluation has stopped and returns nothing: a panic, *)
(*                    the native stack exhausted, or a loop that never     *)
(*                    ends (hung)                                          *)
(*   active           the FnDecl refs whose bodies are being evaluated:    *)
(*                    the eval_call_expr activations on the native stack   *)
(*   trace            history: one entry per finished call of              *)
(*                    eval_node_with_control_flow, in order of completion  *)
(***************************************************************************)
Integer(v) == [t |-> "Integer", v |-> v]
Boolean(v) == [t |-> "Boolean", v |-> v]
String(v) == [t |-> "String", v |-> v]

Continue == [t |-> "Continue"]
Break == [t |-> "Break"]
Return(value) == [t |-> "Return", value |-> value]

Frame_new == [members |-> EmptyMembers]
Interpreter_new ==
    [symbols |-> EmptyMembers, frames |-> <<>>, panicked |-> FALSE,
     hung |-> FALSE, active |-> <<>>, trace |-> <<>>]

\* the driver: the command whose body ran and the status the process ended
\* with (None while it has not ended)
Cli(command, status) == [command |-> command, status |-> status]
\* no source-file object, no server
NoUnit == [stage |-> "None"]
NoServer == [lock |-> 0]

Flow(i, value, flow) == [i |-> i, value |-> value, flow |-> flow]
interp_panic(i) == [i EXCEPT !.panicked = TRUE]
\* evaluation that never returns
interp_hang(i) == [i EXCEPT !.panicked = TRUE, !.hung = TRUE]
\* the history entry of a finished evaluation of node n that began with
\* the frames `before`
Traced(before, r, n) ==
    IF r.i.panicked THEN r
    ELSE [r EXCEPT !.i.trace =
            Append(@, [node |-> n, depth |-> Len(r.i.frames),
                       value |-> r.value, flow |-> r.flow,
                       before |-> before, after |-> r.i.frames])]

\* Interpreter::node: get(..).cloned().unwrap()
has_mxir_node(node_ref) == node_ref >= 0 /\ node_ref < Len(sema.mxir)
mxir_node(node_ref) == sema.mxir[node_ref + 1]

push_frame(i) ==
    IF i.panicked THEN i ELSE [i EXCEPT !.frames = Append(@, Frame_new)]
\* pop_frame that leaves the frame on the stack
pop_frame_keeps(i) == i
pop_frame(i) ==
    IF i.panicked \/ i.frames = <<>> THEN i
    ELSE [i EXCEPT !.frames = SubSeq(@, 1, Len(@) - 1)]

\* entering and leaving the FnDecl branch of eval_call_expr
enter_body(i, fn_decl_ref) ==
    IF i.panicked THEN i ELSE [i EXCEPT !.active = Append(@, fn_decl_ref)]
leave_body(i) ==
    IF i.panicked THEN i ELSE [i EXCEPT !.active = SubSeq(@, 1, Len(@) - 1)]
\* a call of a function whose body is being evaluated: every activation
\* starts from a new empty frame and takes the same path to the same call,
\* so the activations nest until the native stack is exhausted
reenters(i, fn_decl_ref) == \E k \in 1..Len(i.active) : i.active[k] = fn_decl_ref

\* HashMap::insert over the FnDecl nodes in vector order: the last FnDecl
\* of a name is the one registered
RECURSIVE register_from(_, _)
register_from(i, index) ==
    IF index >= Len(sema.mxir) THEN i
    ELSE IF mxir_node(index).data.k = "FnDecl"
    THEN register_from(
            [i EXCEPT !.symbols =
                [n \in (DOMAIN @) \cup {mxir_node(index).data.name} |->
                    IF n = mxir_node(index).data.name THEN index ELSE @[n]]],
            index + 1)
    ELSE register_from(i, index + 1)

register_fn_decls(i) == register_from(i, 0)

RECURSIVE eval_node_with_control_flow(_, _)
RECURSIVE eval_body_from(_, _, _, _)

\* self.eval_node_with_control_flow(self.node(node_ref))
eval_at(i, node_ref) ==
    IF i.panicked THEN Flow(i, None, Continue)
    ELSE IF ~has_mxir_node(node_ref) THEN Flow(interp_panic(i), None, Continue)
    ELSE eval_node_with_control_flow(i, mxir_node(node_ref))

eval_node_ref(i, node_ref) ==
    Only({ [i |-> r.i, value |-> r.value]
          : r \in {eval_at(i, node_ref)}})

eval_node(i, n) ==
    Only({
        [i |-> r.i, value |-> r.value]
          : r \in {eval_node_with_control_flow(i, n)}})

\* an eval_body whose loop ends the body at a Continue node
eval_body_from_continue_skips(i, children, k, result) ==
    IF i.panicked THEN Flow(i, None, Continue)
    ELSE IF k > Len(children) THEN Flow(i, result, Continue)
    ELSE Only({
             IF r.flow.t = "Continue"
                /\ (~has_mxir_node(children[k])
                    \/ mxir_node(children[k]).data.k # "Continue")
             THEN eval_body_from(r.i, children, k + 1, r.value)
             ELSE Flow(r.i, r.value, r.flow)
               : r \in {eval_at(i, children[k])}})

\* the loop of eval_body: the value of the last child evaluated, leaving
\* at the first child whose flow is not Continue
eval_body_from(i, children, k, result) ==
    IF i.panicked THEN Flow(i, None, Continue)
    ELSE IF k > Len(children) THEN Flow(i, result, Continue)
    ELSE Only({
             IF r.flow.t = "Continue"
             THEN eval_body_from(r.i, children, k + 1, r.value)
             ELSE Flow(r.i, r.value, r.flow)
               : r \in {eval_at(i, children[k])}})

eval_body(i, node_ref) ==
    IF i.panicked THEN Flow(i, None, Continue)
    ELSE IF ~has_mxir_node(node_ref) THEN Flow(interp_panic(i), None, Continue)
    ELSE IF mxir_node(node_ref).data.k \in {"SourceFile", "Block"}
    THEN eval_body_from(i, mxir_node(node_ref).data.children, 1, None)
    ELSE Flow(interp_panic(i), None, Continue)

eval_source_file(i, node_ref) == eval_body(i, node_ref)
eval_block(i, node_ref) == eval_body(i, node_ref)

\* eval_call_expr that keeps the body's value when the body returned
eval_call_expr_body_value(i, call_expr) ==
    IF ~has_mxir_node(call_expr.fn_decl_ref)
    THEN Flow(interp_panic(push_frame(i)), None, Continue)
    ELSE LET fn_decl_node == mxir_node(call_expr.fn_decl_ref) IN
         IF fn_decl_node.data.k = "FnDecl"
         THEN IF ~has_mxir_node(fn_decl_node.data.body)
                 \/ reenters(i, call_expr.fn_decl_ref)
              THEN Flow(interp_panic(push_frame(i)), None, Continue)
              ELSE Only({
                       IF r.flow.t = "Return"
                       THEN Flow(pop_frame(leave_body(r.i)), r.value, Continue)
                       ELSE Flow(pop_frame(leave_body(r.i)), r.value, r.flow)
                         : r \in {eval_body(
                                  enter_body(push_frame(i), call_expr.fn_decl_ref),
                                  mxir_node(fn_decl_node.data.body).self_ref)}})
         ELSE Flow(pop_frame(push_frame(i)), None, Continue)

\* a Return leaving the body becomes the value of the call, with Continue;
\* any other flow of the body is passed on as it is
eval_call_expr(i, call_expr) ==
    IF ~has_mxir_node(call_expr.fn_decl_ref)
    THEN Flow(interp_panic(push_frame(i)), None, Continue)
    ELSE LET fn_decl_node == mxir_node(call_expr.fn_decl_ref) IN
         IF fn_decl_node.data.k = "FnDecl"
         THEN IF ~has_mxir_node(fn_decl_node.data.body)
                 \/ reenters(i, call_expr.fn_decl_ref)
              THEN Flow(interp_panic(push_frame(i)), None, Continue)
              ELSE Only({
                       IF r.flow.t = "Return"
                       THEN Flow(pop_frame(leave_body(r.i)), r.flow.value, Continue)
                       ELSE Flow(pop_frame(leave_body(r.i)), r.value, r.flow)
                         : r \in {eval_body(
                                  enter_body(push_frame(i), call_expr.fn_decl_ref),
                                  mxir_node(fn_decl_node.data.body).self_ref)}})
         ELSE Flow(pop_frame(push_frame(i)), None, Continue)

eval_return(i, ret) ==
    IF ret.expr # NoRef
    THEN Only({
             Flow(r.i, None, Return(r.value))
               : r \in {eval_node_ref(i, ret.expr)}})
    ELSE Flow(i, None, Return(None))

eval_expr_stmt(i, expr_stmt) ==
    Only({ Flow(r.i, None, r.flow)
          : r \in {eval_at(i, expr_stmt)}})

\* the variable is inserted only when its initial value is Some
eval_var_decl(i, var_decl) ==
    Only({
        IF r.i.panicked \/ r.i.frames = <<>> \/ ~r.value.some
        THEN Flow(r.i, None, Continue)
        ELSE Flow([r.i EXCEPT !.frames[Len(r.i.frames)].members =
                      [n \in (DOMAIN @) \cup {var_decl.name} |->
                          IF n = var_decl.name THEN r.value.v ELSE @[n]]],
                  None, Continue)
          : r \in {IF var_decl.value # NoRef THEN eval_node_ref(i,
                   var_decl.value) ELSE [i |-> i, value |-> None]}})

eval_var_expr(i, var_expr) ==
    IF i.frames # <<>>
       /\ var_expr.name \in DOMAIN i.frames[Len(i.frames)].members
    THEN Flow(i, Some(i.frames[Len(i.frames)].members[var_expr.name]), Continue)
    ELSE Flow(i, None, Continue)

condition_bool(condition_value) ==
    IF ~condition_value.some THEN FALSE
    ELSE CASE condition_value.v.t = "Boolean" -> condition_value.v.v
           [] condition_value.v.t = "Integer" -> condition_value.v.v # 0
           [] OTHER -> FALSE

\* eval_node_with_control_flow without an arm for If
eval_if_unhandled(i, if_stmt) == Flow(interp_panic(i), None, Continue)

eval_if(i, if_stmt) ==
    Only({
        IF c.i.panicked THEN Flow(c.i, None, Continue)
        ELSE IF c.flow.t # "Continue" THEN Flow(c.i, None, c.flow)
        ELSE IF condition_bool(c.value) THEN eval_at(c.i, if_stmt.then_branch)
        ELSE IF if_stmt.else_branch # NoRef
        THEN eval_at(c.i, if_stmt.else_branch)
        ELSE Flow(c.i, None, Continue)
          : c \in {eval_at(i, if_stmt.condition)}})

\* eval_assign with HashMap::insert: a name the last frame does not hold is
\* bound by the assignment
eval_assign_inserts(i, node_ref) ==
    IF ~has_mxir_node(node_ref) THEN Flow(interp_panic(i), None, Continue)
    ELSE IF mxir_node(node_ref).data.k # "Assign"
    THEN Flow(interp_panic(i), None, Continue)
    ELSE IF ~has_mxir_node(mxir_node(node_ref).data.lhs)
            \/ ~has_mxir_node(mxir_node(node_ref).data.rhs)
    THEN Flow(interp_panic(i), None, Continue)
    ELSE Only({
             IF r.i.panicked THEN Flow(r.i, None, Continue)
             ELSE IF r.flow.t # "Continue" THEN Flow(r.i, None, r.flow)
             ELSE IF /\ r.i.frames # <<>>
                     /\ lhs_node.data.k = "VarExpr"
                     /\ r.value.some
             THEN Flow([r.i EXCEPT
                          !.frames[Len(r.i.frames)].members =
                              [n \in (DOMAIN @) \cup {lhs_node.data.name} |->
                                  IF n = lhs_node.data.name THEN r.value.v
                                  ELSE @[n]]],
                       r.value, Continue)
             ELSE Flow(r.i, None, Continue)
               : r \in {eval_at(i, mxir_node(node_ref).data.rhs)},
                 lhs_node \in {mxir_node(mxir_node(node_ref).data.lhs)}})

\* only a variable the last frame already holds is overwritten
eval_assign(i, node_ref) ==
    IF ~has_mxir_node(node_ref) THEN Flow(interp_panic(i), None, Continue)
    ELSE IF mxir_node(node_ref).data.k # "Assign"
    THEN Flow(interp_panic(i), None, Continue)
    ELSE IF ~has_mxir_node(mxir_node(node_ref).data.lhs)
            \/ ~has_mxir_node(mxir_node(node_ref).data.rhs)
    THEN Flow(interp_panic(i), None, Continue)
    ELSE Only({
             IF r.i.panicked THEN Flow(r.i, None, Continue)
             ELSE IF r.flow.t # "Continue" THEN Flow(r.i, None, r.flow)
             ELSE IF /\ r.i.frames # <<>>
                     /\ lhs_node.data.k = "VarExpr"
                     /\ lhs_node.data.name
                          \in DOMAIN r.i.frames[Len(r.i.frames)].members
                     /\ r.value.some
             THEN Flow([r.i EXCEPT
                          !.frames[Len(r.i.frames)].members[lhs_node.data.name] =
                              r.value.v],
                       r.value, Continue)
             ELSE Flow(r.i, None, Continue)
               : r \in {eval_at(i, mxir_node(node_ref).data.rhs)},
                 lhs_node \in {mxir_node(mxir_node(node_ref).data.lhs)}})

\* the `loop { .. }` of eval_loop.  seen holds the frames at the start of
\* the iterations so far: evaluation is a function of the frames, so an
\* iteration that starts from frames already seen repeats for ever
RECURSIVE eval_loop_from(_, _, _)
RECURSIVE eval_loop_past_return(_, _, _)
\* eval_loop that goes on iterating when the body returned
eval_loop_past_return(i, body_ref, seen) ==
    IF i.panicked THEN Flow(i, None, Continue)
    ELSE IF i.frames \in seen THEN Flow(interp_hang(i), None, Continue)
    ELSE Only({
             CASE r.flow.t = "Break" -> Flow(r.i, None, Continue)
               [] OTHER ->
                    eval_loop_past_return(r.i, body_ref, seen \cup {i.frames})
               : r \in {eval_at(i, body_ref)}})

\* eval_loop that hands the Break of its body on to the construct around it
eval_loop_break_escapes(i, body_ref, seen) ==
    IF i.panicked THEN Flow(i, None, Continue)
    ELSE IF i.frames \in seen THEN Flow(interp_hang(i), None, Continue)
    ELSE Only({
             CASE r.flow.t = "Break" -> Flow(r.i, None, Break)
               [] r.flow.t = "Return" -> Flow(r.i, None, r.flow)
               [] OTHER -> eval_loop_from(r.i, body_ref, seen \cup {i.frames})
               : r \in {eval_at(i, body_ref)}})

eval_loop_from(i, body_ref, seen) ==
    IF i.panicked THEN Flow(i, None, Continue)
    ELSE IF i.frames \in seen THEN Flow(interp_hang(i), None, Continue)
    ELSE Only({
             CASE r.flow.t = "Break" -> Flow(r.i, None, Continue)
               [] r.flow.t = "Return" -> Flow(r.i, None, r.flow)
               [] OTHER -> eval_loop_from(r.i, body_ref, seen \cup {i.frames})
               : r \in {eval_at(i, body_ref)}})

eval_loop(i, loop_stmt) ==
    IF loop_stmt.body # NoRef THEN eval_loop_from(i, loop_stmt.body, {})
    ELSE Flow(i, None, Continue)

eval_node_with_control_flow(i, n) ==
    IF i.panicked THEN Flow(i, None, Continue)
    ELSE Only({
             Traced(i.frames, r, n)
               : r \in {CASE n.data.k = "SourceFile" ->
                              eval_source_file(i, n.self_ref)
                         [] n.data.k = "CallExpr" -> eval_call_expr(i, n.data)
                         [] n.data.k = "Return" -> eval_return(i, n.data)
                         [] n.data.k = "ExprStmt" ->
                              eval_expr_stmt(i, n.data.expr)
                         [] n.data.k = "IntLiteral" ->
                              Flow(i, Some(Integer(n.data.value)), Continue)
                         [] n.data.k = "Loop" -> eval_loop(i, n.data)
                         [] n.data.k = "Block" -> eval_block(i, n.self_ref)
                         [] n.data.k = "If" -> eval_if(i, n.data)
                         [] n.data.k = "Break" -> Flow(i, None, Break)
                         [] n.data.k = "Continue" -> Flow(i, None, Continue)
                         [] n.data.k = "Nop" -> Flow(i, None, Continue)
                         [] n.data.k = "BoolLiteral" ->
                              Flow(i, Some(Boolean(n.data.value)), Continue)
                         [] n.data.k = "VarDecl" -> eval_var_decl(i, n.data)
                         [] n.data.k = "VarExpr" -> eval_var_expr(i, n.data)
                         [] n.data.k = "Assign" -> eval_assign(i, n.self_ref)
                         \* todo!(): FnDecl, StringLiteral, ...
                         [] OTHER -> Flow(interp_panic(i), None, Continue)}})

\* execute that looks main up without registering the FnDecl nodes
execute_without_register(i) ==
    IF S_main \in DOMAIN i.symbols
    THEN Only({ [i |-> r.i, exit_value |-> Some(r.value)]
               : r \in {eval_node(i, MxirNode(0, 0,
                        MxirCallExpr(i.symbols[S_main], <<>>)))}})
    ELSE [i |-> i, exit_value |-> None]

\* Interpreter::execute: the result state and Some(exit value) when a main
\* was found and called
execute(i) ==
    Only({
        IF S_main \in DOMAIN i1.symbols
        THEN Only({ [i |-> r.i, exit_value |-> Some(r.value)]
                   : r \in {eval_node(i1, MxirNode(0, 0,
                            MxirCallExpr(i1.symbols[S_main], <<>>)))}})
        ELSE [i |-> i1, exit_value |-> None]
          : i1 \in {register_fn_decls(i)}})

(***************************************************************************)
(* The programs analyzed: syntax trees of the shapes the grammar produces  *)
(* for the node kinds Sema reads (sema.rs:84-98, 279-288, 369-392).        *)
(***************************************************************************)
TIdent(name) == Tree("identifier", name, <<>>)
TIntLit(chars) == Tree("int_literal", chars, <<>>)
TVarExpr(name) == Tree("variable_expr", name, <<>>)
TComptime(inner) == Tree("comptime_expr", inner.text, <<Kid("expr", inner)>>)
TParam(name, ty) ==
    Tree("param", <<>>, <<Kid("name", TIdent(name)), Kid("type", TComptime(ty))>>)
TParamList(ps) ==
    Tree("param_list", <<>>, [i \in 1..Len(ps) |-> Kid("", ps[i])])
TFnProto(cps, ps, ret) ==
    Tree("fn_proto", <<>>,
         <<Kid("comptime_params", TParamList(cps)), Kid("params", TParamList(ps)),
           Kid("return_type", TComptime(ret))>>)
TNamedProto(name, cps, ps, ret) ==
    Tree("fn_proto", <<>>,
         <<Kid("name", TIdent(name)),
           Kid("comptime_params", TParamList(cps)), Kid("params", TParamList(ps)),
           Kid("return_type", TComptime(ret))>>)
TBlock(body) ==
    Tree("block", <<"{", "}">>, [i \in 1..Len(body) |-> Kid("", body[i])])
TFnDecl(name, cps, ps, ret, body) ==
    Tree("fn_decl", <<>>,
         <<Kid("proto", TNamedProto(name, cps, ps, ret)), Kid("body", TBlock(body))>>)
TConstDecl(name, value) ==
    Tree("const_decl", <<>>, <<Kid("name", TIdent(name)), Kid("value", TComptime(value))>>)
TVarDecl(name, value) ==
    Tree("var_decl", <<>>, <<Kid("name", TIdent(name)), Kid("value", value)>>)
TTypedVarDecl(name, ty, value) ==
    Tree("var_decl", <<>>,
         <<Kid("name", TIdent(name)), Kid("type", TComptime(ty)), Kid("value", value)>>)
TCallExpr(callee) ==
    Tree("call_expr", <<>>, <<Kid("callee", TComptime(TVarExpr(callee)))>>)
TExprStmt(expr) == Tree("expr_stmt", <<>>, <<Kid("expr", expr)>>)
TReturn(expr) == Tree("return_stmt", <<>>, <<Kid("expr", expr)>>)
TReturnNothing == Tree("return_stmt", <<>>, <<>>)
\* `name = value`: an assignment, as a statement of its own kind and as the
\* expression of an expression statement
TAssign(kind, name, value) ==
    Tree(kind, <<>>, <<Kid("", TVarExpr(name)), Kid("", value)>>)
TSourceFile(decls) ==
    Tree("source_file", <<>>, [i \in 1..Len(decls) |-> Kid("", decls[i])])

RECURSIVE SeqsUpTo(_, _)
SeqsUpTo(S, n) ==
    IF n = 0 THEN {<<>>}
    ELSE LET shorter == SeqsUpTo(S, n - 1)
         IN  shorter \cup {Append(q, x) : q \in {p \in shorter : Len(p) = n - 1}, x \in S}

Zero == TIntLit(<<"0">>)
Seven == TIntLit(<<"7">>)
One == TIntLit(<<"1">>)
Two == TIntLit(<<"2">>)
FortyTwo == TIntLit(<<"4", "2">>)
IntLits == {TIntLit(cs) : cs \in SeqsUpTo({"0", "4", "7"}, MaxDigits) \ {<<>>}}

\* parameters: literal types and a type naming the parameter `a`
ParamTrees == {TParam(<<"a">>, Zero), TParam(<<"b">>, Zero), TParam(<<"b">>, TVarExpr(<<"a">>))}
ParamLists == SeqsUpTo(ParamTrees, MaxParams)

\* function bodies
Bodies ==
    { <<>>,
      <<TReturn(Seven)>>,
      <<TReturnNothing>>,
      <<TExprStmt(TVarExpr(<<"u">>))>>,
      <<TExprStmt(TCallExpr(S_main))>>,
      <<TBlock(<<TReturn(Seven)>>), TReturn(Zero)>>,
      <<TVarDecl(<<"v">>, Seven), TReturn(TVarExpr(<<"v">>))>>,
      <<Tree("loop_stmt", <<>>, <<>>)>>,
      <<TTypedVarDecl(<<"x">>, FortyTwo, One),
        TAssign("assign_stmt", <<"x">>, Two), TReturn(TVarExpr(<<"x">>))>>,
      <<TTypedVarDecl(<<"x">>, FortyTwo, One),
        TExprStmt(TAssign("assign_expr", <<"x">>, Two)), TReturn(TVarExpr(<<"x">>))>> }

\* top-level declarations that programs are assembled from
TopDecls ==
    { TFnDecl(S_main, <<>>, <<>>, Zero, <<>>),
      TFnDecl(S_main, <<>>, <<>>, Zero, <<TReturn(Seven)>>),
      TFnDecl(<<"f">>, <<>>, <<>>, Zero, <<>>),
      TFnDecl(<<"g">>, <<TParam(<<"a">>, Zero)>>, <<>>, Zero, <<>>),
      TConstDecl(S_main, Seven),
      TConstDecl(<<"f">>, Zero),
      TVarDecl(<<"f">>, Seven),
      TVarDecl(<<"x">>, TCallExpr(<<"g">>)),
      TVarDecl(<<"x">>, TCallExpr(<<"f">>)) }

Programs ==
    \* any sequence of top-level declarations
    {TSourceFile(ds) : ds \in SeqsUpTo(TopDecls, MaxTop)}
    \* a lone main: every prototype, every body
    \cup {TSourceFile(<<TFnDecl(S_main, cps, ps, Zero, body)>>) :
            cps \in ParamLists, ps \in ParamLists, body \in Bodies}
    \* a fn_proto expression as the type of a variable, then main
    \cup {TSourceFile(<<TTypedVarDecl(<<"p">>, TFnProto(cps, ps, Zero), Zero),
                        TFnDecl(S_main, <<>>, <<>>, Zero, <<>>)>>) :
            cps \in ParamLists, ps \in ParamLists}
    \* main returning a literal
    \cup {TSourceFile(<<TFnDecl(S_main, <<>>, <<>>, Zero, <<TReturn(n)>>)>>) :
            n \in IntLits}
    \* syntax errors: an ERROR node before main, a body that is not closed
    \cup {TSourceFile(<<Tree("ERROR", <<"?">>, <<>>),
                        TFnDecl(S_main, <<>>, <<>>, Zero, <<>>)>>),
          TSourceFile(<<Tree("fn_decl", <<>>,
                             <<Kid("proto", TNamedProto(S_main, <<>>, <<>>, Zero)),
                               Kid("body", Tree("block", <<"{">>, <<>>))>>)>>)}
    \* one reference to a name nothing declares, in a compile-time position:
    \* a type, a const value, a return type, the callee of a call
    \cup {TSourceFile(<<d, TFnDecl(S_main, <<>>, <<>>, Zero, body)>>) :
            d \in {TTypedVarDecl(<<"x">>, TVarExpr(<<"u">>), Zero),
                   TConstDecl(<<"c">>, TVarExpr(<<"u">>)),
                   TFnDecl(<<"f">>, <<>>, <<>>, TVarExpr(<<"u">>), <<>>),
                   TVarDecl(<<"x">>, TCallExpr(<<"u">>))},
            body \in {<<>>, <<TReturn(Seven)>>}}
    \cup {TSourceFile(<<TFnDecl(S_main, <<>>, <<>>, Zero,
                               <<TExprStmt(TCallExpr(<<"u">>))>>)>>)}

(***************************************************************************)
(* Spec: parse, then Sema::analyze step by step along analyze_source_file  *)
(***************************************************************************)
Init ==
    /\ env = ComptimeEnv_new
    /\ call = [op |-> "new", name |-> "", ok |-> TRUE]
    /\ \E t \in Programs : file = ParsedSourceFile("test.mx", t)
    /\ sema = Sema_new
    /\ stmts = <<>>
    /\ interp = Interpreter_new
    /\ exit_value = None
    /\ cli = Cli("", None)
    /\ unit = NoUnit
    /\ server = NoServer
    /\ pc = "parsed"

\* analyze_source_file: reserve slot 0, push the root scope
SemaBegin ==
    /\ pc = "parsed"
    /\ sema' = sema_push_scope(
                 emit(sema, 0, MxirSourceFile(<<>>)).s, node(0).range)
    /\ stmts' = <<>>
    /\ pc' = "body"
    /\ UNCHANGED <<env, call, file, interpVars, shellVars>>

\* analyze_body(source file): lower the next top-level child
SemaTopLevel ==
    /\ pc = "body"
    /\ Len(stmts) < Len(node(0).children)
    /\ \E r \in {analyze_node(sema, node(0).children[Len(stmts) + 1])} :
       /\ sema' = r.s
       /\ stmts' = Append(stmts, r.ref)
       /\ pc' = IF r.s.panicked THEN "panicked" ELSE "body"
    /\ UNCHANGED <<env, call, file, interpVars, shellVars>>

\* the entry point: lower the call to main, or report that there is none
SemaEntryPoint ==
    /\ pc = "body"
    /\ Len(stmts) = Len(node(0).children)
    /\ IF get(sema.env, S_main).some
       THEN \E main_fn_decl \in {get(sema.env, S_main).v} :
            \E r \in {analyze_resolved_fn_call(sema, main_fn_decl.node_ref,
                                               main_fn_decl.value, <<>>, <<>>)} :
                /\ sema' = r.s
                /\ stmts' = Append(stmts, r.ref)
                /\ pc' = IF r.s.panicked THEN "panicked" ELSE "entry"
       ELSE /\ sema' = report(sema, 0,
                              DiagnosticKind("MissingEntrypointFunction"))
            /\ stmts' = stmts
            /\ pc' = "entry"
    /\ UNCHANGED <<env, call, file, interpVars, shellVars>>

\* fill slot 0 with the collected statements, pop the root scope
SemaFinish ==
    /\ pc = "entry"
    /\ sema' = sema_pop_scope(
                 [sema EXCEPT !.mxir[1].data.children = @ \o stmts])
    /\ pc' = "analyzed"
    /\ UNCHANGED <<env, call, file, stmts, interpVars, shellVars>>

\* a client of the library: Interpreter::new(&analyzed_file).execute()
Execute ==
    /\ pc = "analyzed"
    /\ \E r \in {execute(Interpreter_new)} :
       /\ interp' = r.i
       /\ exit_value' = r.exit_value
       /\ pc' = IF r.i.hung THEN "hung"
                ELSE IF r.i.panicked THEN "crashed" ELSE "executed"
    /\ UNCHANGED <<env, call, file, sema, stmts, cli, shellVars>>

\* analyze that drops what Sema reported
AnalyzedSourceFile_diagnostics_of_parser == file.diagnostics
\* ParsedSourceFile::analyze: self.data.diagnostics.extend(diagnostics)
AnalyzedSourceFile_diagnostics == file.diagnostics \o sema.diagnostics

\* the status a process ends with: 0 when main returns, 101 on a panic
ExitSuccess == 0
ExitPanic == 101

\* the `run` command, from the point where analyze() has returned (the
\* commands parse and analyze in the same way): return when there are
\* diagnostics, else print the MXIR and execute
Run ==
    /\ pc = "analyzed"
    /\ IF AnalyzedSourceFile_diagnostics # <<>>
       THEN /\ cli' = Cli("run", Some(ExitSuccess))
            /\ pc' = "refused"
            /\ UNCHANGED <<interp, exit_value>>
       ELSE \E r \in {execute(Interpreter_new)} :
            /\ interp' = r.i
            /\ exit_value' = r.exit_value
            /\ cli' = Cli("run", IF r.i.hung THEN None
                                 ELSE IF r.i.panicked THEN Some(ExitPanic)
                                 ELSE Some(ExitSuccess))
            /\ pc' = IF r.i.hung THEN "hung"
                     ELSE IF r.i.panicked THEN "crashed" ELSE "executed"
    /\ UNCHANGED <<env, call, file, sema, stmts, shellVars>>

\* the `compile` command, from the point where analyze() has returned:
\* emit_c and print.  CEmitter::emit reports nothing and writes text for
\* every node kind (c_emitter.rs:45-83); the text is not part of the state
Compile ==
    /\ pc = "analyzed"
    /\ cli' = Cli("compile", Some(ExitSuccess))
    /\ pc' = "compiled"
    /\ UNCHANGED <<env, call, file, sema, stmts, interp, exit_value, shellVars>>

Next ==
    \/ SemaBegin
    \/ SemaTopLevel
    \/ SemaEntryPoint
    \/ SemaFinish
    \/ Execute
    \/ Run
    \/ Compile

Spec == Init /\ [][Next]_vars

(***************************************************************************)
(* SpecEnv: a client driving a ComptimeEnv through its public operations   *)
(***************************************************************************)
EnvNames == {"x", "y"}
EnvRefs == {1, 2}
EnvRange == <<0, 100>>

RECURSIVE CountBindings(_, _)
CountBindings(tables, i) ==
    IF i > Len(tables) THEN 0
    ELSE Cardinality(DOMAIN tables[i].members) + CountBindings(tables, i + 1)

CanDeclare == CountBindings(env.tables, 1) < MaxBindings

InitEnv ==
    /\ env = ComptimeEnv_new
    /\ call = [op |-> "new", name |-> "", ok |-> TRUE]
    /\ file = [path |-> "", ast |-> <<>>, diagnostics |-> <<>>]
    /\ sema = Sema_new
    /\ stmts = <<>>
    /\ interp = Interpreter_new
    /\ exit_value = None
    /\ cli = Cli("", None)
    /\ unit = NoUnit
    /\ server = NoServer
    /\ pc = "env"

EnvPushScope ==
    /\ Len(env.tables) < MaxTables
    /\ env' = push_scope(env, EnvRange)
    /\ call' = [op |-> "push_scope", name |-> "", ok |-> TRUE]
    /\ UNCHANGED <<semaVars, interpVars, shellVars>>

EnvPopScope ==
    /\ env' = pop_scope(env)
    /\ call' = [op |-> "pop_scope", name |-> "", ok |-> TRUE]
    /\ UNCHANGED <<semaVars, interpVars, shellVars>>

EnvDeclareFn ==
    \E name \in {"x"}, r \in {1} :
        /\ CanDeclare
        /\ LET d == declare_fn(env, r, name, <<>>, <<>>, Type, r + 1) IN
           /\ env' = d.env
           /\ call' = [op |-> "declare_fn", name |-> name, ok |-> d.ok]
           /\ UNCHANGED <<semaVars, interpVars, shellVars>>

EnvDeclareConst ==
    \E name \in EnvNames, r \in EnvRefs :
        /\ CanDeclare
        /\ LET d == declare_const(env, r, name, None, ComptimeInt(r)) IN
           /\ env' = d.env
           /\ call' = [op |-> "declare_const", name |-> name, ok |-> d.ok]
           /\ UNCHANGED <<semaVars, interpVars, shellVars>>

EnvDeclareVar ==
    \E name \in {"y"}, r \in {2} :
        /\ CanDeclare
        /\ LET d == declare_var(env, r, name, Some(Type), r + 1) IN
           /\ env' = d.env
           /\ call' = [op |-> "declare_var", name |-> name, ok |-> d.ok]
           /\ UNCHANGED <<semaVars, interpVars, shellVars>>

NextEnv ==
    \/ EnvPushScope
    \/ EnvPopScope
    \/ EnvDeclareFn
    \/ EnvDeclareConst
    \/ EnvDeclareVar

SpecEnv == InitEnv /\ [][NextEnv]_vars

(***************************************************************************)
(* SpecInterp: Interpreter::new(&file).execute() on an MXIR vector.        *)
(* The vectors are written as trees and laid out as Sema lays a unit out:  *)
(* slot 0 is the SourceFile, a node comes after the nodes it refers to,    *)
(* and self_ref is the position.  A CallExpr is written with the name of   *)
(* the function and linked to the FnDecl node of that name.                *)
(***************************************************************************)
MTree(k, arg, kids) == [k |-> k, arg |-> arg, kids |-> kids]

MData(t, refs) ==
    CASE t.k = "Block" -> MxirBlock(refs)
      [] t.k = "If" ->
           MxirIf(refs[1], refs[2], IF Len(refs) = 3 THEN refs[3] ELSE NoRef)
      [] t.k = "Loop" -> MxirLoop(IF refs = <<>> THEN NoRef ELSE refs[1])
      [] t.k = "Return" -> MxirReturn(IF refs = <<>> THEN NoRef ELSE refs[1])
      [] t.k = "ExprStmt" -> MxirExprStmt(refs[1])
      [] t.k = "IntLiteral" -> MxirIntLiteral(t.arg)
      [] t.k = "BoolLiteral" -> MxirBoolLiteral(t.arg)
      [] t.k = "VarDecl" ->
           MxirVarDecl(t.arg, None, IF refs = <<>> THEN NoRef ELSE refs[1])
      [] t.k = "VarExpr" -> MxirVarExpr(t.arg)
      [] t.k = "Assign" -> MxirAssign(refs[1], refs[2])
      [] t.k = "CallExpr" -> MxirCallExpr(t.arg, <<>>)
      [] t.k = "FnDecl" -> MxirFnDecl(t.arg, refs[1])
      [] t.k = "BuiltinFnDecl" -> MxirBuiltinFnDecl(t.arg)
      [] t.k = "Break" -> MxirBreak
      [] t.k = "Continue" -> MxirContinue
      [] OTHER -> MxirNop(t.k)

RECURSIVE MLower(_, _)
RECURSIVE MLowerAll(_, _, _, _)
\* the vector with the nodes of t appended, and the position of t
MLower(mxir, t) ==
    Only({
        [mxir |-> Append(ks.mxir,
                         MxirNode(Len(ks.mxir), 0, MData(t, ks.refs))),
         ref |-> Len(ks.mxir)]
          : ks \in {MLowerAll(mxir, t.kids, 1, <<>>)}})
MLowerAll(mxir, kids, j, refs) ==
    IF j > Len(kids) THEN [mxir |-> mxir, refs |-> refs]
    ELSE Only({
             MLowerAll(r.mxir, kids, j + 1, Append(refs, r.ref))
               : r \in {MLower(mxir, kids[j])}})

\* the position of the declaration node named name: a FnDecl, a
\* BuiltinFnDecl, or (a fn_decl_ref that is no function) a VarDecl
FnDeclNamed(mxir, name) ==
    CHOOSE j \in 0..(Len(mxir) - 1) :
        /\ mxir[j + 1].data.k \in {"FnDecl", "BuiltinFnDecl", "VarDecl"}
        /\ mxir[j + 1].data.name = name

MLink(mxir, top) ==
    [j \in 1..Len(mxir) |->
        IF j = 1 THEN [mxir[j] EXCEPT !.data.children = top]
        ELSE IF mxir[j].data.k = "CallExpr"
        THEN [mxir[j] EXCEPT
                !.data.fn_decl_ref = FnDeclNamed(mxir, mxir[j].data.fn_decl_ref)]
        ELSE mxir[j]]

\* the unit of the function declarations decls
MFile(decls) ==
    Only({
        MLink(r.mxir, r.refs)
          : r \in {MLowerAll(<<MxirNode(0, 0, MxirSourceFile(<<>>))>>,
                             decls, 1, <<>>)}})

MInt(v) == MTree("IntLiteral", v, <<>>)
MBlock(body) == MTree("Block", <<>>, body)
MReturn(expr) == MTree("Return", <<>>, <<expr>>)
MCall(name) == MTree("ExprStmt", <<>>, <<MTree("CallExpr", name, <<>>)>>)
MFn(name, body) == MTree("FnDecl", name, <<MBlock(body)>>)
MBreak == MTree("Break", <<>>, <<>>)
MNop == MTree("Nop", <<>>, <<>>)
MVar(name) == MTree("VarExpr", name, <<>>)
MCallExpr(name) == MTree("CallExpr", name, <<>>)
MVarDecl(name, init) == MTree("VarDecl", name, init)
MAssign(lhs, rhs) == MTree("Assign", <<>>, <<lhs, rhs>>)
MContinue == MTree("Continue", <<>>, <<>>)
S_f == <<"f">>
S_x == <<"x">>
S_y == <<"y">>

\* the statement a nest of constructs is built around
MAtoms == {MReturn(MInt(7)), MBreak, MNop, MCall(S_f)}
\* the statement that follows the nested one in each body
MFollower == MReturn(MInt(0))

MWrappers == {"Block", "Then", "Else", "Loop", "LoopOnce", "ExprStmt"}
MWrap(w, inner) ==
    CASE w = "Block" -> MBlock(<<inner, MFollower>>)
      [] w = "Then" ->
           MTree("If", <<>>,
                 <<MInt(1), MBlock(<<inner, MFollower>>)>>)
      [] w = "Else" ->
           MTree("If", <<>>,
                 <<MInt(0), MBlock(<<MFollower>>), MBlock(<<inner, MFollower>>)>>)
      [] w = "Loop" -> MTree("Loop", <<>>, <<MBlock(<<inner, MNop>>)>>)
      [] w = "LoopOnce" -> MTree("Loop", <<>>, <<MBlock(<<inner, MBreak>>)>>)
      [] OTHER -> MTree("ExprStmt", <<>>, <<inner>>)

RECURSIVE MNest(_, _)
\* the statement inner inside the constructs ws, outermost first
MNest(ws, inner) ==
    IF ws = <<>> THEN inner
    ELSE MWrap(Head(ws), MNest(Tail(ws), inner))

\* the bodies of the function f that main calls
MCallees ==
    { <<>>,
      <<MReturn(MInt(4)), MFollower>>,
      <<MBreak, MFollower>>,
      <<MTree("Loop", <<>>, <<MBlock(<<MReturn(MInt(4))>>)>>), MFollower>>,
      <<MCall(S_main), MFollower>> }

\* x = 0; loop { if x { break; } x = 1; } return x;
MCounting ==
    <<MTree("VarDecl", S_x, <<MInt(0)>>),
      MTree("Loop", <<>>,
            <<MBlock(<<MTree("If", <<>>, <<MVar(S_x), MBlock(<<MBreak>>)>>),
                      MTree("Assign", <<>>, <<MVar(S_x), MInt(1)>>)>>)>>),
      MReturn(MVar(S_x))>>

\* what main does to x and y before the assignment: x and y bound, only y
\* bound, x declared without an initialiser
MDeclared ==
    { <<MVarDecl(S_x, <<MInt(0)>>), MVarDecl(S_y, <<MInt(0)>>)>>,
      <<MVarDecl(S_y, <<MInt(0)>>)>>,
      <<MVarDecl(S_x, <<>>), MVarDecl(S_y, <<MInt(0)>>)>> }
\* left sides: a bound or unbound variable, a node that is not a VarExpr
MLeftSides == {MVar(S_x), MInt(3)}
\* right sides: a value, no value, a signal, a right side that writes the
\* frame itself, a call
MRightSides ==
    { MInt(1), MNop, MVar(S_y), MVar(<<"u">>), MBreak, MReturn(MInt(4)),
      MAssign(MVar(S_y), MInt(2)), MVarDecl(<<"z">>, <<MInt(5)>>),
      MBlock(<<MAssign(MVar(S_y), MInt(2)), MBreak>>),
      MCallExpr(S_f) }
\* callees that read, assign and declare the names of the caller
MFrameCallees ==
    { <<MReturn(MVar(S_x))>>,
      <<MAssign(MVar(S_x), MInt(9)), MReturn(MVar(S_x))>>,
      <<MVarDecl(S_x, <<MInt(9)>>), MReturn(MVar(S_x))>>,
      <<MVarDecl(S_x, <<MInt(9)>>), MBreak>> }

MxirFiles ==
    {MFile(<<MFn(S_f, callee), MFn(S_main, <<MNest(ws, atom), MFollower>>)>>) :
        callee \in MCallees, ws \in SeqsUpTo(MWrappers, MaxNest), atom \in MAtoms}
    \cup {MFile(<<MFn(S_main, MCounting)>>)}
    \* main declares, assigns once and returns x; f is a callee of each kind
    \cup {MFile(<<MFn(S_f, callee),
                  MFn(S_main, declared \o <<MAssign(lhs, rhs), MReturn(MVar(S_x))>>)>>) :
            callee \in MFrameCallees, declared \in MDeclared,
            lhs \in MLeftSides, rhs \in MRightSides}
    \* main calls a builtin, and a fn_decl_ref that is not a function
    \cup {MFile(<<MTree("BuiltinFnDecl", <<"b">>, <<>>),
                  MVarDecl(<<"v">>, <<MInt(1)>>),
                  MFn(S_main, <<MVarDecl(S_x, <<MInt(0)>>),
                                MAssign(MVar(S_x), MCallExpr(callee)),
                                MCall(callee), MReturn(MVar(S_x))>>)>>) :
            callee \in {<<"b">>, <<"v">>}}

InitInterp ==
    /\ env = ComptimeEnv_new
    /\ call = [op |-> "new", name |-> "", ok |-> TRUE]
    /\ file = [path |-> "", ast |-> <<>>, diagnostics |-> <<>>]
    /\ \E mxir \in MxirFiles : sema = [Sema_new EXCEPT !.mxir = mxir]
    /\ stmts = <<>>
    /\ interp = Interpreter_new
    /\ exit_value = None
    /\ cli = Cli("", None)
    /\ unit = NoUnit
    /\ server = NoServer
    /\ pc = "analyzed"

NextInterp == Execute

SpecInterp == InitInterp /\ [][NextInterp]_vars

\* execute is called as soon as the interpreter is constructed
SpecInterpLive == SpecInterp /\ WF_vars(NextInterp)

(***************************************************************************)
(* Programs with Continue nodes, executed as they are and again with       *)
(* Continue nodes replaced by Nop (SpecContinue).  call records the        *)
(* outcome of the first execution.                                         *)
(***************************************************************************)
\* x = 0; loop { if x { break; } continue; x = 1; } return x;
MSkipping ==
    <<MVarDecl(S_x, <<MInt(0)>>),
      MTree("Loop", <<>>,
            <<MBlock(<<MTree("If", <<>>, <<MVar(S_x), MBlock(<<MBreak>>)>>),
                      MContinue,
                      MAssign(MVar(S_x), MInt(1))>>)>>),
      MReturn(MVar(S_x))>>

\* callees with and without a Continue before their Return
MContinueCallees == {<<>>, <<MContinue, MReturn(MInt(4))>>}

\* Continue as the right side of an Assign, the value of a VarDecl, the
\* expression of a Return, and twice in one body
MContinueUses ==
    { <<MVarDecl(S_x, <<MInt(0)>>), MAssign(MVar(S_x), MContinue),
        MReturn(MVar(S_x))>>,
      <<MVarDecl(S_x, <<MContinue>>), MReturn(MVar(S_x))>>,
      <<MReturn(MContinue)>>,
      <<MContinue, MVarDecl(S_x, <<MCallExpr(S_f)>>), MContinue,
        MReturn(MVar(S_x))>> }

ContinueFiles ==
    {MFile(<<MFn(S_f, callee),
             MFn(S_main, <<MNest(ws, MContinue), MFollower>>)>>) :
        callee \in MContinueCallees, ws \in SeqsUpTo(MWrappers, MaxNest)}
    \cup {MFile(<<MFn(S_f, callee), MFn(S_main, body)>>) :
            callee \in MContinueCallees, body \in MContinueUses \cup {MSkipping}}

ContinueRefs(mxir) == {j \in 1..Len(mxir) : mxir[j].data.k = "Continue"}

\* the MXIR with the Continue nodes at the positions R made Nop nodes
NopForContinue(mxir, R) ==
    [j \in 1..Len(mxir) |->
        IF j \in R THEN [mxir[j] EXCEPT !.data = MxirNop("continue")]
        ELSE mxir[j]]

InitContinue ==
    /\ env = ComptimeEnv_new
    /\ call = [op |-> "new"]
    /\ file = [path |-> "", ast |-> <<>>, diagnostics |-> <<>>]
    /\ \E mxir \in ContinueFiles : sema = [Sema_new EXCEPT !.mxir = mxir]
    /\ stmts = <<>>
    /\ interp = Interpreter_new
    /\ exit_value = None
    /\ cli = Cli("", None)
    /\ unit = NoUnit
    /\ server = NoServer
    /\ pc = "analyzed"

\* after the first execution: the same unit with some of its Continue
\* nodes replaced by Nop, given to a new interpreter
ReplaceContinue ==
    /\ pc \in {"executed", "crashed", "hung"}
    /\ call.op = "new"
    /\ \E R \in (SUBSET ContinueRefs(sema.mxir)) \ {{}} :
          sema' = [sema EXCEPT !.mxir = NopForContinue(@, R)]
    /\ call' = [op |-> "execute", i |-> interp, exit_value |-> exit_value,
                pc |-> pc]
    /\ interp' = Interpreter_new
    /\ exit_value' = None
    /\ pc' = "analyzed"
    /\ UNCHANGED <<env, file, stmts, cli, shellVars>>

NextContinue == Execute \/ ReplaceContinue

SpecContinue == InitContinue /\ [][NextContinue]_vars

(***************************************************************************)
(* CEmitter (c_emitter.rs).  The text is the sequence of the pieces        *)
(* written, in order; a name or a string value is written as its           *)
(* characters.                                                             *)
(***************************************************************************)
CEmitter_new == [c |-> <<>>, level |-> 0]

emit_inline(e, str) == [e EXCEPT !.c = Append(@, str)]
emit_chars(e, chars) == [e EXCEPT !.c = @ \o chars]
\* " ".repeat(level * 4), then the string
emit_line(e, str) ==
    [e EXCEPT !.c = (@ \o [k \in 1..(e.level * 4) |-> " "]) \o <<str>>]
indent(e) == [e EXCEPT !.level = @ + 1]
dedent(e) == [e EXCEPT !.level = @ - 1]

RECURSIVE emit_node(_, _, _)
RECURSIVE emit_body_from(_, _, _, _)

\* emit_body: each node, then a newline
emit_body_from(e, mxir, node_refs, k) ==
    IF k > Len(node_refs) THEN e
    ELSE emit_body_from(emit_inline(emit_node(e, mxir, node_refs[k]), "\n"),
                        mxir, node_refs, k + 1)

emit_source_file(e, mxir, block) == emit_body_from(e, mxir, block.children, 1)

emit_var_decl(e, mxir, var_decl) ==
    emit_inline(
        IF var_decl.value # NoRef
        THEN emit_node(emit_inline(emit_chars(emit_line(e, "int "), var_decl.name),
                                   " = "),
                       mxir, var_decl.value)
        ELSE emit_chars(emit_line(e, "int "), var_decl.name),
        ";")

emit_fn_decl(e, mxir, fn_decl) ==
    emit_node(emit_inline(emit_inline(emit_chars(emit_line(e, "void "),
                                                 fn_decl.name), "("), ") "),
              mxir, fn_decl.body)

emit_block(e, mxir, block) ==
    emit_line(dedent(emit_body_from(indent(emit_line(e, "{\n")), mxir,
                                    block.children, 1)),
              "}\n")

emit_node(e, mxir, node_ref) ==
    LET data == mxir[node_ref + 1].data IN
    CASE data.k = "Nop" ->
            emit_inline(emit_inline(emit_inline(emit_inline(
                emit_line(e, "/* Nop(MxirNodeRef "), ToString(node_ref)),
                ", "), data.msg), ") */")
      [] data.k = "SourceFile" -> emit_source_file(e, mxir, data)
      [] data.k = "VarDecl" -> emit_var_decl(e, mxir, data)
      [] data.k = "FnDecl" -> emit_fn_decl(e, mxir, data)
      [] data.k = "ExprStmt" -> emit_inline(emit_node(e, mxir, data.expr), ";")
      [] data.k = "Block" -> emit_block(e, mxir, data)
      [] data.k = "IntLiteral" -> emit_inline(e, ToString(data.value))
      [] data.k = "StringLiteral" -> emit_chars(e, data.value)
      [] data.k = "VarExpr" -> emit_chars(e, data.name)
      [] data.k = "Return" ->
            emit_inline(IF data.expr # NoRef
                        THEN emit_node(emit_line(e, "return "), mxir, data.expr)
                        ELSE emit_line(e, "return "),
                        ";")
      [] OTHER ->
            emit_inline(emit_inline(emit_inline(e, "/* Unhandled node: "),
                                    ToString(node_ref)), " */")

emit_preamble(e) == emit_line(e, "#include <stdio.h>\n\n")

\* CEmitter::emit: the C text (it reports no diagnostics)
CEmitter_emit(mxir) == emit_node(emit_preamble(CEmitter_new), mxir, 0).c

(***************************************************************************)
(* SpecUnit: a client of source_file.rs holding one source-file object     *)
(* through its stages and updating it.  file, sema, stmts and pc are the   *)
(* evaluation of parse() and analyze() on the text unit.work: the text the *)
(* client constructs the object from, then the text it passes to update.   *)
(***************************************************************************)
UnitPath == "test.mx"

UnitPrograms ==
    { TSourceFile(<<TFnDecl(S_main, <<>>, <<>>, Zero, <<>>)>>),
      TSourceFile(<<TFnDecl(S_main, <<>>, <<>>, Zero, <<TReturn(Seven)>>)>>),
      TSourceFile(<<TFnDecl(<<"f">>, <<>>, <<>>, Zero, <<>>)>>),
      TSourceFile(<<Tree("fn_decl", <<>>,
                         <<Kid("proto", TNamedProto(S_main, <<>>, <<>>, Zero)),
                           Kid("body", Tree("block", <<"{">>, <<>>))>>)>>) }

\* UnparsedSourceFile::new(path, src).parse()
Unit_parse(src) ==
    Only({
        [stage |-> "Parsed", src |-> src, diagnostics |-> parsed.diagnostics,
         ast |-> parsed.ast, mxir |-> <<>>, c |-> <<>>,
         call |-> "parse", work |-> src]
          : parsed \in {ParsedSourceFile(UnitPath, src)}})

InitUnit ==
    /\ env = ComptimeEnv_new
    /\ call = [op |-> "new", name |-> "", ok |-> TRUE]
    /\ \E src \in UnitPrograms :
          /\ file = ParsedSourceFile(UnitPath, src)
          /\ unit = Unit_parse(src)
    /\ sema = Sema_new
    /\ stmts = <<>>
    /\ interp = Interpreter_new
    /\ exit_value = None
    /\ cli = Cli("", None)
    /\ server = NoServer
    /\ pc = "parsed"

\* the analysis of the text of the object is at hand
UnitAnalysisReady == pc = "analyzed" /\ unit.work = unit.src

\* ParsedSourceFile::analyze
UnitAnalyze ==
    /\ unit.stage = "Parsed"
    /\ UnitAnalysisReady
    /\ unit' = [unit EXCEPT !.stage = "Analyzed",
                            !.diagnostics = @ \o sema.diagnostics,
                            !.mxir = sema.mxir,
                            !.call = "analyze"]
    /\ UNCHANGED <<env, call, file, sema, stmts, interpVars, server, pc>>

\* AnalyzedSourceFile::emit_c
UnitEmitC ==
    /\ unit.stage = "Analyzed"
    /\ unit' = [unit EXCEPT !.stage = "C",
                            !.c = CEmitter_emit(unit.mxir),
                            !.call = "emit_c"]
    /\ UNCHANGED <<env, call, file, sema, stmts, interpVars, server, pc>>

\* the client edits the text: src is what it will pass to update
UnitEdit ==
    /\ unit.call # "edit"
    /\ \E src \in UnitPrograms :
          /\ file' = ParsedSourceFile(UnitPath, src)
          /\ unit' = [unit EXCEPT !.work = src, !.call = "edit"]
    /\ sema' = Sema_new
    /\ stmts' = <<>>
    /\ pc' = "parsed"
    /\ UNCHANGED <<env, call, interpVars, server>>

\* ParsedSourceFile::update(src): data, tree and ast of the new parse
UnitUpdateParsed ==
    /\ unit.stage = "Parsed"
    /\ unit.call = "edit"
    /\ unit' = [unit EXCEPT !.src = unit.work,
                            !.diagnostics = file.diagnostics,
                            !.ast = file.ast,
                            !.call = "update"]
    /\ UNCHANGED <<env, call, file, sema, stmts, interpVars, server, pc>>

\* AnalyzedSourceFile::update(src) and CSourceFile::update(src): data,
\* tree, ast and mxir of the new analysis; CSourceFile assigns no other
\* field
UnitUpdateAnalyzed ==
    /\ unit.stage \in {"Analyzed", "C"}
    /\ unit.call = "edit"
    /\ pc = "analyzed"
    /\ unit' = [unit EXCEPT !.src = unit.work,
                            !.diagnostics = AnalyzedSourceFile_diagnostics,
                            !.ast = file.ast,
                            !.mxir = sema.mxir,
                            !.call = "update"]
    /\ UNCHANGED <<env, call, file, sema, stmts, interpVars, server, pc>>

NextUnit ==
    \/ SemaBegin
    \/ SemaTopLevel
    \/ SemaEntryPoint
    \/ SemaFinish
    \/ UnitAnalyze
    \/ UnitEmitC
    \/ UnitEdit
    \/ UnitUpdateParsed
    \/ UnitUpdateAnalyzed

SpecUnit == InitUnit /\ [][NextUnit]_vars

(***************************************************************************)
(* The language server (server.rs): one document, opened with did_open,    *)
(* and two notifications for it whose handlers run concurrently.           *)
(*   server.files      the entry of the document in self.files             *)
(*   server.lock       the handler that holds the files mutex, 0 if none   *)
(*   server.published  the diagnostics last sent to the client             *)
(*   server.handlers   per notification: its kind and text, where the      *)
(*                     handler is, and the diagnostics it has cloned       *)
(* file, sema, stmts and pc are the analysis that is running: that of      *)
(* did_open, then that of the update of the handler holding the mutex.     *)
(***************************************************************************)
Handlers == {1, 2}
ServerTexts == UnitPrograms

Handler(kind, text) ==
    [kind |-> kind, text |-> text, pc |-> "start", diagnostics |-> <<>>]

InitServer ==
    /\ env = ComptimeEnv_new
    /\ call = [op |-> "new", name |-> "", ok |-> TRUE]
    /\ \E text \in ServerTexts : file = ParsedSourceFile(UnitPath, text)
    /\ sema = Sema_new
    /\ stmts = <<>>
    /\ interp = Interpreter_new
    /\ exit_value = None
    /\ cli = Cli("", None)
    /\ unit = NoUnit
    /\ \E t1 \in ServerTexts, t2 \in ServerTexts,
          k2 \in {"did_change", "did_save"} :
          server = [files |-> None, lock |-> 0, published |-> None,
                    handlers |-> <<Handler("did_change", t1),
                                   Handler(k2, t2)>>]
    /\ pc = "parsed"

\* did_open: the analysis made, the entry inserted, the diagnostics sent
ServerDidOpen ==
    /\ pc = "analyzed"
    /\ ~server.files.some
    /\ server' = [server EXCEPT
                    !.files = Some([diagnostics |-> AnalyzedSourceFile_diagnostics]),
                    !.published = Some(AnalyzedSourceFile_diagnostics)]
    /\ pc' = "idle"
    /\ UNCHANGED <<env, call, file, sema, stmts, interpVars, unit>>

\* did_change / did_save: self.files.lock().await, the entry found;
\* src_file.update(&text) begins
HandlerLock(h) ==
    /\ server.files.some
    /\ server.lock = 0
    /\ server.handlers[h].pc = "start"
    /\ server' = [server EXCEPT !.lock = h, !.handlers[h].pc = "locked"]
    /\ file' = ParsedSourceFile(UnitPath, server.handlers[h].text)
    /\ sema' = Sema_new
    /\ stmts' = <<>>
    /\ pc' = "parsed"
    /\ UNCHANGED <<env, call, interpVars, unit>>

\* update has replaced the entry; the diagnostics cloned; drop(files)
HandlerUpdate(h) ==
    /\ server.lock = h
    /\ pc = "analyzed"
    /\ server' = [server EXCEPT
                    !.files = Some([diagnostics |-> AnalyzedSourceFile_diagnostics]),
                    !.handlers[h].diagnostics = AnalyzedSourceFile_diagnostics,
                    !.handlers[h].pc = "unlocked",
                    !.lock = 0]
    /\ pc' = "idle"
    /\ UNCHANGED <<env, call, file, sema, stmts, interpVars, unit>>

\* self.send_diagnostics(uri, diagnostics).await
HandlerSend(h) ==
    /\ server.handlers[h].pc = "unlocked"
    /\ server' = [server EXCEPT
                    !.published = Some(server.handlers[h].diagnostics),
                    !.handlers[h].pc = "done"]
    /\ UNCHANGED <<env, call, file, sema, stmts, interpVars, unit, pc>>

NextServer ==
    \/ SemaBegin
    \/ SemaTopLevel
    \/ SemaEntryPoint
    \/ SemaFinish
    \/ ServerDidOpen
    \/ \E h \in Handlers : HandlerLock(h)
    \/ \E h \in Handlers : HandlerUpdate(h)
    \/ \E h \in Handlers : HandlerSend(h)

SpecServer == InitServer /\ [][NextServer]_vars

(***************************************************************************)
(* Claims about the scope stack (SpecEnv)                                  *)
(***************************************************************************)
ActiveTables == {env.stack[i] : i \in 1..Len(env.stack)}

\* positions of the active stack whose table binds name n
ActiveBinders(n) ==
    {i \in 1..Len(env.stack) : n \in DOMAIN env.tables[env.stack[i] + 1].members}

Innermost(S) == CHOOSE i \in S : \A j \in S : j <= i

\* C1: shadowing. Whenever a name is bound in tables of the active stack,
\* lookup returns the binding of the innermost such table: an inner
\* declaration hides the outer one while its scope is active, and after the
\* inner scope is popped the outer binding is returned again.
C1_Shadowing ==
    \A n \in EnvNames :
        ActiveBinders(n) # {} =>
            lookup(env, n) =
                Some(env.tables[env.stack[Innermost(ActiveBinders(n))] + 1].members[n])

\* the inner scope that shadowed x has just been popped: a table off the
\* stack, child of the current top, binds x differently from what lookup gives
C1_Witness ==
    /\ call.op = "pop_scope"
    /\ env.stack # <<>>
    /\ lookup(env, "x").some
    /\ \E t \in 1..Len(env.tables) :
          /\ (t - 1) \notin ActiveTables
          /\ env.tables[t].parent = current_table_ref(env)
          /\ "x" \in DOMAIN env.tables[t].members
          /\ "x" \in DOMAIN env.tables[current_table_ref(env) + 1].members
          /\ Some(env.tables[t].members["x"]) # lookup(env, "x")

\* C2: lookup only returns bindings of tables on the active stack: the table
\* a name is found in is an active one, and with an empty stack nothing is
\* found.
C2_LookupOnlyActive ==
    /\ \A n \in EnvNames :
          lookup_table(env, n) # NoRef => lookup_table(env, n) \in ActiveTables
    /\ env.stack = <<>> => \A n \in EnvNames : lookup(env, n) = None

\* a popped scope binds y, a new scope has been pushed on the popped scope's
\* former parent, and lookup does not find y
C2_Witness ==
    /\ call.op = "push_scope"
    /\ Len(env.stack) >= 2
    /\ lookup(env, "y") = None
    /\ \E t \in 1..Len(env.tables) :
          /\ (t - 1) \notin ActiveTables
          /\ "y" \in DOMAIN env.tables[t].members
          /\ env.tables[t].parent = env.tables[current_table_ref(env) + 1].parent

DeclareOps == {"declare_fn", "declare_const", "declare_var"}

\* C3: a declare_* call never overwrites. No step changes or removes a
\* binding a table already holds; a declare of a name bound in the top table
\* returns Err and changes nothing; a declare of a name not bound in the top
\* table (bound in an enclosing scope or nowhere) returns Ok and, when there
\* is a top table, adds the binding to it and changes nothing else.
C3_DeclareNeverOverwrites ==
    [][ /\ \A t \in 1..Len(env.tables) :
              /\ t <= Len(env'.tables)
              /\ \A n \in DOMAIN env.tables[t].members :
                    /\ n \in DOMAIN env'.tables[t].members
                    /\ env'.tables[t].members[n] = env.tables[t].members[n]
        /\ call'.op \in DeclareOps =>
              IF get(env, call'.name).some
              THEN ~call'.ok /\ env' = env
              ELSE /\ call'.ok
                   /\ env'.stack = env.stack
                   /\ Len(env'.tables) = Len(env.tables)
                   /\ env.stack # <<>> =>
                        /\ get(env', call'.name).some
                        /\ \A t \in 1..Len(env.tables) :
                              /\ t # current_table_ref(env) + 1 =>
                                    env'.tables[t] = env.tables[t]
                              /\ DOMAIN env'.tables[t].members \subseteq
                                    (DOMAIN env.tables[t].members) \cup {call'.name}
      ]_vars

\* a declare has just returned Err for a name that the top table and its
\* parent both bind (the earlier declare in the inner scope succeeded)
C3_Witness ==
    /\ call.op \in DeclareOps
    /\ ~call.ok
    /\ Len(env.stack) >= 2
    /\ call.name \in DOMAIN env.tables[env.stack[Len(env.stack)] + 1].members
    /\ call.name \in DOMAIN env.tables[env.stack[Len(env.stack) - 1] + 1].members

(***************************************************************************)
(* Claims about Sema and the interpreter (Spec)                            *)
(***************************************************************************)
Analyzed ==
    pc \in {"analyzed", "executed", "crashed", "hung", "refused", "compiled"}

DiagsOf(k) ==
    {d \in 1..Len(sema.diagnostics) : sema.diagnostics[d].kind.k = k}
DiagCount(k) == Cardinality(DiagsOf(k))

\* the top-level declarations of the program and the names they bind
TopLevel == node(0).children
DeclName(r) ==
    IF node(r).kind = "fn_decl"
    THEN node(child(node(child(node(r), "proto")), "name")).text
    ELSE node(child(node(r), "name")).text
Descendants(r) == node(r).range[1]..node(r).range[2]

RootTable == sema.env.tables[1]
RootHasMain == S_main \in DOMAIN RootTable.members

\* the name nodes of the parameters of prototype r, comptime list first
ListNameRefs(r, field) ==
    [p \in 1..Len(node(child(node(r), field)).children) |->
        child(node(node(child(node(r), field)).children[p]), "name")]
ParamNameRefs(r) ==
    ListNameRefs(r, "comptime_params") \o ListNameRefs(r, "params")
ParamTypeKinds(r) ==
    {node(child(node(child(node(q), "type")), "expr")).kind :
        q \in {q \in Descendants(r) : node(q).kind = "param"}}
SameNameParams(r) ==
    {pr \in (1..Len(ParamNameRefs(r))) \X (1..Len(ParamNameRefs(r))) :
        /\ pr[1] < pr[2]
        /\ node(ParamNameRefs(r)[pr[1]]).text = node(ParamNameRefs(r)[pr[2]]).text}
Protos == {r \in 0..(Len(file.ast) - 1) : node(r).kind = "fn_proto"}

\* the program is one declaration: a function named main
LoneMain ==
    /\ Len(TopLevel) = 1
    /\ node(TopLevel[1]).kind = "fn_decl"
    /\ DeclName(TopLevel[1]) = S_main
MainProto == child(node(TopLevel[1]), "proto")
MainBody == child(node(TopLevel[1]), "body")
BodyDeclaresNothing ==
    \A r \in Descendants(MainBody) :
        node(r).kind \notin {"fn_decl", "const_decl", "var_decl"}
BodyCallsNothing ==
    \A r \in Descendants(MainBody) : node(r).kind # "call_expr"
LiteralReturnType ==
    node(child(node(child(node(MainProto), "return_type")), "expr")).kind
        = "int_literal"

\* C4: whenever the root scope has no binding named main once the
\* top-level children are lowered, MissingEntrypointFunction is reported
\* exactly once, and a diagnostics list holding nothing else has length 1
C4_MissingEntrypointOnce ==
    (Analyzed /\ ~RootHasMain) =>
        /\ DiagCount("MissingEntrypointFunction") = 1
        /\ (\A d \in 1..Len(sema.diagnostics) :
                sema.diagnostics[d].kind.k = "MissingEntrypointFunction")
            => Len(sema.diagnostics) = 1

\* C5 as stated: a lone main of any prototype with a literal return type
\* and a body that declares nothing is analyzed without diagnostics
C5_LoneMainAnyPrototype ==
    (Analyzed /\ LoneMain /\ LiteralReturnType /\ BodyDeclaresNothing) =>
        sema.diagnostics = <<>>

\* C5 amended: a lone main with no comptime parameter, pairwise distinct
\* parameter names, literal parameter types, a literal return type and a
\* body that declares nothing and calls nothing: whenever analyze returns,
\* it returns an empty diagnostics list
C5_LoneMainNoDiagnostics ==
    (/\ Analyzed
     /\ LoneMain
     /\ LiteralReturnType
     /\ BodyDeclaresNothing
     /\ BodyCallsNothing
     /\ ListNameRefs(MainProto, "comptime_params") = <<>>
     /\ SameNameParams(MainProto) = {}
     /\ ParamTypeKinds(MainProto) \subseteq {"int_literal"})
    => sema.diagnostics = <<>>

C5_Witness ==
    /\ pc = "analyzed"
    /\ LoneMain
    /\ LiteralReturnType
    /\ BodyDeclaresNothing
    /\ BodyCallsNothing
    /\ ListNameRefs(MainProto, "comptime_params") = <<>>
    /\ Len(ListNameRefs(MainProto, "params")) = 2
    /\ SameNameParams(MainProto) = {}
    /\ ParamTypeKinds(MainProto) = {"int_literal"}
    /\ Len(node(MainBody).children) > 0
    /\ sema.diagnostics = <<>>

\* the pairs of top-level declarations that bind the same name
SameNameDecls ==
    {pr \in (1..Len(TopLevel)) \X (1..Len(TopLevel)) :
        /\ pr[1] < pr[2]
        /\ node(TopLevel[pr[1]]).kind \in {"fn_decl", "const_decl", "var_decl"}
        /\ node(TopLevel[pr[2]]).kind \in {"fn_decl", "const_decl", "var_decl"}
        /\ DeclName(TopLevel[pr[1]]) = DeclName(TopLevel[pr[2]])}

\* C6: when two top-level declarations bind the same name, exactly one
\* DuplicateDefinition is reported, at the range of the second one, and
\* the root scope keeps the binding of the first one
C6_DuplicateDefinitionOnce ==
    (Analyzed /\ Cardinality(SameNameDecls) = 1) =>
        \A pr \in SameNameDecls :
            /\ DiagCount("DuplicateDefinition") = 1
            /\ \A d \in DiagsOf("DuplicateDefinition") :
                   sema.diagnostics[d].range = node(TopLevel[pr[2]]).range
            /\ DeclName(TopLevel[pr[1]]) \in DOMAIN RootTable.members
            /\ RootTable.members[DeclName(TopLevel[pr[1]])].node_ref
                   = TopLevel[pr[1]]

\* C7: when exactly two parameters of one prototype have the same name,
\* in whichever of its two lists they are, exactly one DuplicateParamName
\* is reported, at the second parameter's name, and no DuplicateDefinition
C7_DuplicateParamNameOnce ==
    \A r \in Protos :
        (/\ Analyzed
         /\ Cardinality(SameNameParams(r)) = 1
         /\ \A q \in Protos \ {r} : SameNameParams(q) = {})
        => \A pr \in SameNameParams(r) :
            /\ DiagCount("DuplicateParamName") = 1
            /\ \A d \in DiagsOf("DuplicateParamName") :
                   sema.diagnostics[d].range = node(ParamNameRefs(r)[pr[2]]).range
            /\ DiagCount("DuplicateDefinition") = 0

\* the MxirNodeRefs in the payload of a node
PayloadRefs(data) ==
    CASE data.k \in {"SourceFile", "Block"} ->
            {data.children[c] : c \in 1..Len(data.children)}
      [] data.k = "ExprStmt" -> {data.expr}
      [] data.k = "Return" -> {data.expr} \ {NoRef}
      [] data.k = "VarDecl" -> {data.value} \ {NoRef}
      [] data.k = "FnDecl" -> {data.body}
      [] data.k = "CallExpr" -> {data.fn_decl_ref}
      [] OTHER -> {}

\* C8: at every point of analyze and after it, the node at index i has
\* self_ref = i, slot 0 is the SourceFile node and no other node is one,
\* and every reference in the payload of a node other than slot 0 is an
\* emitted node strictly below the node's own self_ref
C8_ReferenceMonotonicity ==
    \A m \in 1..Len(sema.mxir) :
        /\ sema.mxir[m].self_ref = m - 1
        /\ (sema.mxir[m].data.k = "SourceFile") <=> (m = 1)
        /\ m > 1 =>
             \A ref \in PayloadRefs(sema.mxir[m].data) :
                 ref >= 0 /\ ref < sema.mxir[m].self_ref

\* a Block holding a Return holding a literal was emitted, and slot 0 has
\* been filled with children above its own index
C8_Witness ==
    /\ pc = "analyzed"
    /\ \E m \in 2..Len(sema.mxir) :
          /\ sema.mxir[m].data.k = "Block"
          /\ \E c \in 1..Len(sema.mxir[m].data.children) :
                sema.mxir[sema.mxir[m].data.children[c] + 1].data.k = "Return"
    /\ \E c \in 1..Len(sema.mxir[1].data.children) :
          sema.mxir[1].data.children[c] > 0

\* the program is only a function named main, with an empty body
EmptyMain ==
    /\ LoneMain
    /\ LiteralReturnType
    /\ node(MainBody).children = <<>>

\* a prototype Sema accepts silently for the entry point
PlainPrototype ==
    /\ ListNameRefs(MainProto, "comptime_params") = <<>>
    /\ SameNameParams(MainProto) = {}
    /\ ParamTypeKinds(MainProto) \subseteq {"int_literal"}

SourceFileChildren == sema.mxir[1].data.children
IsEmptyMainFnDecl(ref) ==
    /\ sema.mxir[ref + 1].data.k = "FnDecl"
    /\ sema.mxir[ref + 1].data.name = S_main
    /\ sema.mxir[sema.mxir[ref + 1].data.body + 1].data = MxirBlock(<<>>)

ReturnsLiteral ==
    /\ LoneMain
    /\ LiteralReturnType
    /\ ParamNameRefs(MainProto) = <<>>
    /\ Len(node(MainBody).children) = 1
    /\ node(node(MainBody).children[1]).kind = "return_stmt"
    /\ child(node(node(MainBody).children[1]), "expr") # NoRef
    /\ node(child(node(node(MainBody).children[1]), "expr")).kind = "int_literal"
LiteralText == node(child(node(node(MainBody).children[1]), "expr")).text

\* C10: analyzing and executing `fn main` whose body is `return n;` for an
\* integer literal n ends with the exit value Integer(n): the Return
\* raised in the body is the value of the call to main
C10_ReturnLiteral ==
    (pc \in {"executed", "crashed"} /\ ReturnsLiteral) =>
        /\ pc = "executed"
        /\ exit_value = Some(Some(Integer(parse_digits(LiteralText, 1, 0))))
        /\ interp.frames = <<>>

C10_Witness ==
    /\ pc = "executed"
    /\ ReturnsLiteral
    /\ Len(LiteralText) = 2
    /\ exit_value = Some(Some(Integer(47)))

(***************************************************************************)
(* Assignment, end to end                                                  *)
(***************************************************************************)
BodyStmt(i) == node(node(MainBody).children[i])
\* the assignment node of a statement: the statement itself, or the
\* expression of an expression statement
AssignOf(stmt) ==
    IF stmt.kind = "expr_stmt" THEN node(child(stmt, "expr")) ELSE stmt
AssignSide(i) == node(AssignOf(BodyStmt(2)).children[i])
\* main is `var x: T = a; x = b; return x;` with literals a # b
DeclaresAssignsReturns ==
    /\ LoneMain
    /\ ParamNameRefs(MainProto) = <<>>
    /\ Len(node(MainBody).children) = 3
    /\ BodyStmt(1).kind = "var_decl"
    /\ node(child(BodyStmt(1), "value")).kind = "int_literal"
    /\ AssignOf(BodyStmt(2)).kind \in {"assign_stmt", "assign_expr"}
    /\ Len(AssignOf(BodyStmt(2)).children) = 2
    /\ AssignSide(1).text
         = node(child(BodyStmt(1), "name")).text
    /\ AssignSide(2).kind = "int_literal"
    /\ AssignSide(2).text
         # node(child(BodyStmt(1), "value")).text
    /\ BodyStmt(3).kind = "return_stmt"
    /\ child(BodyStmt(3), "expr") # NoRef
    /\ node(child(BodyStmt(3), "expr")).kind = "variable_expr"
    /\ node(child(BodyStmt(3), "expr")).text
         = node(child(BodyStmt(1), "name")).text
AssignedText == AssignSide(2).text
InitialText == node(child(BodyStmt(1), "value")).text

\* C11: a main body that declares a variable with an initial value, assigns
\* it a different integer and returns the variable exits with the assigned
\* value: `var x: 42 = 1; x = 2; return x;` exits with Integer(2).
C11_AssignedValueReturned ==
    (pc \in {"executed", "crashed"} /\ DeclaresAssignsReturns) =>
        /\ pc = "executed"
        /\ exit_value = Some(Some(Integer(parse_digits(AssignedText, 1, 0))))

\* what the program does instead: the exit value is the initial value
C11_InitialValueReturned ==
    (pc \in {"executed", "crashed"} /\ DeclaresAssignsReturns) =>
        /\ pc = "executed"
        /\ sema.diagnostics = <<>>
        /\ exit_value = Some(Some(Integer(parse_digits(InitialText, 1, 0))))

(***************************************************************************)
(* Control flow of the interpreter (SpecInterp)                            *)
(***************************************************************************)
Trace == interp.trace

\* the nodes that evaluating a node evaluates directly
Evaluates(data) ==
    CASE data.k \in {"SourceFile", "Block"} ->
            {data.children[c] : c \in 1..Len(data.children)}
      [] data.k = "ExprStmt" -> {data.expr}
      [] data.k = "Return" -> {data.expr} \ {NoRef}
      [] data.k = "VarDecl" -> {data.value} \ {NoRef}
      [] data.k = "If" ->
            {data.condition, data.then_branch, data.else_branch} \ {NoRef}
      [] data.k = "Loop" -> {data.body} \ {NoRef}
      [] data.k = "Assign" -> {data.rhs}
      [] OTHER -> {}

RECURSIVE Within(_)
\* the node ref and the nodes its evaluation evaluates, calls left out
Within(ref) ==
    {ref} \cup UNION {Within(c) : c \in Evaluates(sema.mxir[ref + 1].data)}

\* the constructs a signal passes through
Constructs == {"Block", "If", "Loop", "ExprStmt"}

\* the entry after p is the construct around the node of p (an Assign
\* hands the signal of its right side on as the constructs do), finishing
\* in the same frame with the signal of p
PassedOn(p) ==
    /\ Trace[p + 1].node.data.k \in Constructs \cup {"Assign"}
    /\ Trace[p].node.self_ref \in Evaluates(Trace[p + 1].node.data)
    /\ Trace[p + 1].depth = Trace[p].depth
    /\ Trace[p + 1].flow = Trace[p].flow

\* the statements of the body of the function a CallExpr calls (eval_body
\* is called on the body by eval_call_expr itself, so the body has no entry)
BodyOf(call_expr) ==
    Evaluates(sema.mxir[sema.mxir[call_expr.fn_decl_ref + 1].data.body + 1].data)

\* the entry after p is the call whose body holds the statement of p: it
\* finishes in the frame of the caller with the returned value and Continue
ReturnedFrom(p) ==
    /\ Trace[p + 1].node.data.k = "CallExpr"
    /\ Trace[p].node.self_ref \in BodyOf(Trace[p + 1].node.data)
    /\ Trace[p + 1].depth = Trace[p].depth - 1
    /\ Trace[p + 1].flow = Continue
    /\ Trace[p + 1].value = Trace[p].flow.value

\* the blocks that hold the statement ref before another statement
BlocksWithNext(ref) ==
    {<<m, c>> \in (1..Len(sema.mxir)) \X (1..Len(sema.mxir)) :
        /\ sema.mxir[m].data.k = "Block"
        /\ c < Len(sema.mxir[m].data.children)
        /\ sema.mxir[m].data.children[c] = ref}

\* when the call of entry q is an expression statement followed by another
\* statement, the next node to finish after the statement belongs to the
\* statement that follows
CallerGoesOn(q) ==
    (q < Len(Trace) /\ Trace[q + 1].node.data.k = "ExprStmt") =>
        /\ Trace[q + 1].flow = Continue
        /\ \A mc \in BlocksWithNext(Trace[q + 1].node.self_ref) :
               /\ pc = "executed" => q + 2 <= Len(Trace)
               /\ q + 2 <= Len(Trace) =>
                    Trace[q + 2].node.self_ref
                        \in Within(sema.mxir[mc[1]].data.children[mc[2] + 1])

\* C12: a Return signal is handed from each construct (Block, If, Loop,
\* ExprStmt) to the construct around it without any other node being
\* evaluated in between, up to the CallExpr whose body it left; the CallExpr
\* yields the returned value with Continue, and the statement after the
\* call in the caller is evaluated next.
C12_ReturnStopsAtCall ==
    \A p \in 1..Len(Trace) :
        Trace[p].flow.t = "Return" =>
            /\ p < Len(Trace)
            /\ \/ PassedOn(p)
               \/ ReturnedFrom(p) /\ CallerGoesOn(p + 1)

\* a Return in a callee left a Loop there, became the value of the call,
\* and the caller went on inside its own Loop and If and returned from them
C12_Witness ==
    /\ pc = "executed"
    /\ exit_value = Some(Some(Integer(0)))
    /\ \E p, q, r \in 1..Len(Trace) :
          /\ p < q /\ q < r
          /\ Trace[p].node.data.k = "Loop" /\ Trace[p].depth = 2
          /\ Trace[p].flow = Return(Some(Integer(4)))
          /\ Trace[q].node.data.k = "CallExpr" /\ Trace[q].depth = 1
          /\ Trace[q].value = Some(Integer(4)) /\ Trace[q].flow = Continue
          /\ Trace[r].node.data.k = "Loop" /\ Trace[r].depth = 1
          /\ Trace[r].flow = Return(Some(Integer(0)))

\* the nodes a Block, If, ExprStmt or Loop evaluates
Nests(data) ==
    IF data.k \in Constructs THEN Evaluates(data) ELSE {}

RECURSIVE NestedIn(_)
\* the node ref and the nodes nested in it at any Block/If/ExprStmt/Loop depth
NestedIn(ref) ==
    {ref} \cup UNION {NestedIn(c) : c \in Nests(sema.mxir[ref + 1].data)}

\* the node ref is nested in the body of a Loop of the vector
InLoopBody(ref) ==
    \E m \in 1..Len(sema.mxir) :
        /\ sema.mxir[m].data.k = "Loop"
        /\ sema.mxir[m].data.body # NoRef
        /\ ref \in NestedIn(sema.mxir[m].data.body)

\* the entry after p is the Loop whose body the node of p is: it finishes
\* with no value and Continue
LoopEnded(p) ==
    /\ Trace[p + 1].node.data.k = "Loop"
    /\ Trace[p + 1].node.data.body = Trace[p].node.self_ref
    /\ Trace[p + 1].depth = Trace[p].depth
    /\ Trace[p + 1].value = None
    /\ Trace[p + 1].flow = Continue

\* when the node of entry q is followed by another statement in its Block,
\* the next node to finish belongs to that statement
NextStatementRuns(q) ==
    \A mc \in BlocksWithNext(Trace[q].node.self_ref) :
        /\ pc = "executed" => q + 1 <= Len(Trace)
        /\ q + 1 <= Len(Trace) =>
             Trace[q + 1].node.self_ref
                 \in Within(sema.mxir[mc[1]].data.children[mc[2] + 1])

\* C13: a Break signal raised in the body of a Loop, at any Block/If depth,
\* is handed from each Block, If or ExprStmt to the construct around it
\* with no other node evaluated in between, up to the innermost Loop around
\* it; that Loop finishes with no value and Continue, and the statement
\* after the Loop in the Block or Loop body that holds it is evaluated next.
C13_BreakEndsInnermostLoop ==
    \A p \in 1..Len(Trace) :
        (Trace[p].flow = Break /\ InLoopBody(Trace[p].node.self_ref)) =>
            /\ p < Len(Trace)
            /\ \/ PassedOn(p) /\ Trace[p + 1].node.data.k # "Loop"
               \/ LoopEnded(p) /\ NextStatementRuns(p + 1)

\* a Break ended the inner of two loops, the outer loop went on with the
\* statement after the inner loop, and main went on after the outer loop
C13_Witness ==
    /\ pc = "executed"
    /\ exit_value = Some(Some(Integer(0)))
    /\ \E p, q \in 1..Len(Trace) :
          /\ p + 3 < q
          /\ Trace[p].node.data.k = "Break" /\ Trace[p].flow = Break
          /\ Trace[p + 1].node.data.k = "Block" /\ Trace[p + 1].flow = Break
          /\ Trace[p + 2].node.data.k = "Loop" /\ Trace[p + 2].flow = Continue
          /\ Trace[p + 3].node.data.k = "Break" /\ Trace[p + 3].depth = 1
          /\ Trace[q].node.data.k = "Loop" /\ Trace[q].flow = Continue
          /\ Trace[p + 2].node.self_ref
               \in NestedIn(Trace[q].node.data.body) \ {Trace[q].node.data.body}

(***************************************************************************)
(* Termination of execute (SpecInterpLive)                                 *)
(***************************************************************************)
HasLoop == \E m \in 1..Len(sema.mxir) : sema.mxir[m].data.k = "Loop"

FnDeclRefs == {m - 1 : m \in {j \in 1..Len(sema.mxir) : sema.mxir[j].data.k = "FnDecl"}}

\* the functions called from the body of the function fn
Calls(fn) ==
    IF sema.mxir[fn + 1].data.k # "FnDecl" THEN {}
    ELSE {sema.mxir[c + 1].data.fn_decl_ref :
            c \in {w \in Within(sema.mxir[fn + 1].data.body) :
                      sema.mxir[w + 1].data.k = "CallExpr"}}

RECURSIVE CallsWithin(_, _)
\* the functions reached from the functions fns through at most n calls
CallsWithin(fns, n) ==
    IF n = 0 THEN fns
    ELSE CallsWithin(fns \cup UNION {Calls(fn) : fn \in fns}, n - 1)

\* a function whose body calls it, directly or through other functions
HasRecursion ==
    \E fn \in FnDeclRefs : fn \in CallsWithin(Calls(fn), Cardinality(FnDeclRefs))

Started == pc \in {"executed", "crashed", "hung"}
\* parsing or analysis produced a diagnostic
HasDiagnostics == file.diagnostics # <<>> \/ sema.diagnostics # <<>>

\* C15: the run command starts the interpreter only on a unit whose
\* diagnostics list is empty; on a unit with a diagnostic, of the parser
\* or of the analyzer, it returns with the interpreter untouched.
C15_RunRefusesDiagnostics ==
    cli.command = "run" =>
        /\ Started => ~HasDiagnostics
        /\ HasDiagnostics =>
             /\ pc = "refused"
             /\ interp = Interpreter_new
             /\ exit_value = None

\* run returned without executing a unit that parsed without error and
\* that Sema reported on
C15_Witness ==
    /\ cli.command = "run"
    /\ pc = "refused"
    /\ file.diagnostics = <<>>
    /\ sema.diagnostics # <<>>
    /\ \E m \in 1..Len(sema.mxir) : sema.mxir[m].data.k = "FnDecl"

\* C16: the compile command ends with a non-zero exit status whenever
\* parsing or analysis of the input produced at least one diagnostic.
C16_CompileFailsOnDiagnostics ==
    (cli.command = "compile" /\ HasDiagnostics) =>
        /\ cli.status.some
        /\ cli.status # Some(ExitSuccess)

\* what the command does instead: whatever the diagnostics, it ends with
\* status 0 once analyze has returned
C16_CompileAlwaysSucceeds ==
    cli.command = "compile" => cli.status = Some(ExitSuccess)

(***************************************************************************)
(* Unbound names (Spec)                                                    *)
(***************************************************************************)
AstRefs == 0..(Len(file.ast) - 1)

\* the variable_expr nodes in a run-time expression position: the expr of
\* an expression statement or of a return, the value of a var_decl
RunTimeVarExprs ==
    {r \in AstRefs :
        /\ node(r).kind = "variable_expr"
        /\ \E q \in AstRefs :
              \/ /\ node(q).kind \in {"expr_stmt", "return_stmt"}
                 /\ child(node(q), "expr") = r
              \/ /\ node(q).kind = "var_decl"
                 /\ child(node(q), "value") = r}

\* the names the program declares anywhere: functions, constants,
\* variables and parameters
DeclaredNames ==
    {DeclName(q) : q \in {q \in AstRefs :
                            node(q).kind \in {"fn_decl", "const_decl", "var_decl"}}}
    \cup {node(child(node(q), "name")).text :
            q \in {q \in AstRefs : node(q).kind = "param"}}

\* the AST node r has been lowered
Lowered(r) == \E m \in 1..Len(sema.mxir) : sema.mxir[m].ast_node = r

\* C17: once a variable_expr in a run-time expression position has been
\* lowered, and its name is one the program declares nowhere, the
\* diagnostics hold SymbolNotFound(name) at the range of the node.
C17_UnboundVariableReported ==
    \A r \in RunTimeVarExprs :
        (Lowered(r) /\ node(r).text \notin DeclaredNames) =>
            \E d \in 1..Len(sema.diagnostics) :
                /\ sema.diagnostics[d].kind = SymbolNotFound(node(r).text)
                /\ sema.diagnostics[d].range = node(r).range

\* what Sema does instead: the node becomes Nop("undefined variable") and
\* no SymbolNotFound names it
C17_UnboundVariableSilent ==
    \A r \in RunTimeVarExprs :
        (Lowered(r) /\ node(r).text \notin DeclaredNames) =>
            /\ \E m \in 1..Len(sema.mxir) :
                  /\ sema.mxir[m].ast_node = r
                  /\ sema.mxir[m].data = MxirNop("undefined variable")
            /\ \A d \in DiagsOf("SymbolNotFound") :
                  sema.diagnostics[d].kind.name # node(r).text

(***************************************************************************)
(* Compile-time evaluation (Spec)                                          *)
(***************************************************************************)
\* the tables of the scopes on the stack of an environment, innermost last
ActiveScopes(e) == [k \in 1..Len(e.stack) |-> e.tables[e.stack[k] + 1]]

\* C18: every call of comptime_eval_comptime_expr that returns, the
\* evaluation of a fn_proto and of its parameter types and return type
\* included, leaves the MXIR vector as it was at the call, and the scope
\* stack with the tables on it as they were at the call.
C18_CtEvalEmitsNothing ==
    \A c \in 1..Len(sema.ct_evals) :
        /\ sema.ct_evals[c].mxir_after = sema.ct_evals[c].mxir_before
        /\ sema.ct_evals[c].env_after.stack = sema.ct_evals[c].env_before.stack
        /\ ActiveScopes(sema.ct_evals[c].env_after)
             = ActiveScopes(sema.ct_evals[c].env_before)

\* a fn_proto with a comptime parameter was evaluated while MXIR nodes were
\* already emitted: a scope was pushed for it, a table allocated and the
\* parameter bound there
C18_Witness ==
    \E c \in 1..Len(sema.ct_evals) :
        /\ node(child(node(sema.ct_evals[c].node_ref), "expr")).kind = "fn_proto"
        /\ Len(sema.ct_evals[c].mxir_before) > 0
        /\ Len(sema.ct_evals[c].env_before.stack) > 0
        /\ \E t \in 1..Len(sema.ct_evals[c].env_after.tables) :
              /\ t > Len(sema.ct_evals[c].env_before.tables)
              /\ DOMAIN sema.ct_evals[c].env_after.tables[t].members # {}

(***************************************************************************)
(* Unbound names in compile-time positions (Spec)                          *)
(***************************************************************************)
\* the comptime_expr nodes whose expression is a variable_expr naming
\* something the program declares nowhere, and that is the only reference
\* to that name in the program
ComptimeExprOf(r) ==
    {q \in AstRefs : node(q).kind = "comptime_expr" /\ child(node(q), "expr") = r}
SingleUnboundRefs ==
    {r \in AstRefs :
        /\ node(r).kind = "variable_expr"
        /\ ComptimeExprOf(r) # {}
        /\ node(r).text \notin DeclaredNames
        /\ \A q \in AstRefs \ {r} :
              node(q).kind = "variable_expr" => node(q).text # node(r).text}

\* comptime_eval_comptime_expr has returned for the reference
CtEvaluated(r) ==
    \E c \in 1..Len(sema.ct_evals) : sema.ct_evals[c].node_ref \in ComptimeExprOf(r)

\* the call expressions whose callee is the reference
CallsOf(r) ==
    {c \in AstRefs : /\ node(c).kind = "call_expr"
                     /\ child(node(c), "callee") \in ComptimeExprOf(r)}

\* the diagnostics the reference gives rise to: SymbolNotFound of its name,
\* and the diagnostic reported on the value it evaluates to (a callee that
\* is not a function)
DiagsFrom(r) ==
    {d \in 1..Len(sema.diagnostics) :
        \/ sema.diagnostics[d].kind = SymbolNotFound(node(r).text)
        \/ /\ sema.diagnostics[d].kind = DiagnosticKind("InvalidFunctionCall")
           /\ \E c \in CallsOf(r) : sema.diagnostics[d].range = node(c).range}

\* C19: a single reference to an unbound name in a compile-time position (a
\* type, a const value, a return type, the callee of a call) gives, once it
\* is evaluated, exactly one diagnostic: SymbolNotFound of the name.
C19_OneDiagnosticPerUnboundName ==
    \A r \in SingleUnboundRefs :
        CtEvaluated(r) =>
            /\ Cardinality(DiagsFrom(r)) = 1
            /\ \A d \in DiagsFrom(r) :
                  sema.diagnostics[d].kind = SymbolNotFound(node(r).text)

\* what Sema does: one SymbolNotFound in every position, and for a callee
\* InvalidFunctionCall on the call after it
C19_CalleeReportedTwice ==
    \A r \in SingleUnboundRefs :
        CtEvaluated(r) =>
            /\ Cardinality({d \in DiagsFrom(r) :
                  sema.diagnostics[d].kind = SymbolNotFound(node(r).text)}) = 1
            /\ Cardinality(DiagsFrom(r)) = 1 + Cardinality(CallsOf(r))

(***************************************************************************)
(* Calls of declared functions (Spec)                                      *)
(***************************************************************************)
CalleeName(c) == node(child(node(child(node(c), "callee")), "expr")).text

\* the call expressions whose callee is a variable_expr
NamedCalls ==
    {c \in AstRefs :
        /\ node(c).kind = "call_expr"
        /\ node(child(node(child(node(c), "callee")), "expr")).kind = "variable_expr"}

\* the entries of the history for the callee of the call: the lowering of
\* the call has begun and its callee has been evaluated
CalleeEvals(c) ==
    {e \in 1..Len(sema.ct_evals) :
        sema.ct_evals[e].node_ref = child(node(c), "callee")}

\* the callee was bound, when it was evaluated, to a function declared with
\* an empty comptime parameter list
ResolvedToFn(c, e) ==
    /\ lookup(sema.ct_evals[e].env_after, CalleeName(c)).some
    /\ lookup(sema.ct_evals[e].env_after, CalleeName(c)).v.value.t = "FnDecl"
    /\ lookup(sema.ct_evals[e].env_after, CalleeName(c)).v.value.comptime_params = <<>>

\* C20: once the callee of a call_expr has been evaluated to a declared
\* function with no comptime parameters, analysis has not aborted: the MXIR
\* vector holds, after the nodes that were there at the call, an FnDecl node
\* with the callee's name whose body is a Block, and between two top-level
\* declarations the scope stack is the one the call found.  An FnDecl node
\* is emitted only for main and for functions that some call_expr names.
C20_CallEmitsFnDecl ==
    /\ \A c \in NamedCalls : \A e \in CalleeEvals(c) :
          ResolvedToFn(c, e) =>
            /\ ~sema.panicked
            /\ \E m \in 1..Len(sema.mxir) :
                  /\ m > Len(sema.ct_evals[e].mxir_before)
                  /\ sema.mxir[m].data.k = "FnDecl"
                  /\ sema.mxir[m].data.name = CalleeName(c)
                  /\ sema.mxir[sema.mxir[m].data.body + 1].data.k = "Block"
            /\ (pc = "body" /\ e = Len(sema.ct_evals)) =>
                  sema.env.stack = sema.ct_evals[e].env_before.stack
    /\ \A m \in 1..Len(sema.mxir) :
          sema.mxir[m].data.k = "FnDecl" =>
              \/ sema.mxir[m].data.name = S_main
              \/ \E c \in NamedCalls : CalleeName(c) = sema.mxir[m].data.name

\* what Sema does: the lowering of such a call aborts, so that the only
\* FnDecl nodes are those of the entry point
C20_CallAborts ==
    /\ \A c \in NamedCalls : \A e \in CalleeEvals(c) :
          ResolvedToFn(c, e) => sema.panicked
    /\ \A m \in 1..Len(sema.mxir) :
          sema.mxir[m].data.k = "FnDecl" => sema.mxir[m].data.name = S_main

(***************************************************************************)
(* Frames of the interpreter (SpecInterp)                                  *)
(***************************************************************************)
AssignEntries == {p \in 1..Len(Trace) : Trace[p].node.data.k = "Assign"}
LhsOf(p) == sema.mxir[Trace[p].node.data.lhs + 1].data

\* the right side is the node that finished just before the Assign, and it
\* began with the frames the Assign began with
RhsFirst(p) ==
    /\ p > 1
    /\ Trace[p - 1].node.self_ref = Trace[p].node.data.rhs
    /\ Trace[p - 1].before = Trace[p].before

\* the assignment of entry p, judged in the frames fs, does not write
AssignFails(p, fs) ==
    \/ Trace[p - 1].flow # Continue
    \/ ~Trace[p - 1].value.some
    \/ LhsOf(p).k # "VarExpr"
    \/ fs = <<>>
    \/ LhsOf(p).name \notin DOMAIN fs[Len(fs)].members

\* entry p leaves the frames fs as they are when the assignment fails, and
\* with the one binding of the top frame overwritten when it does not
AssignEffect(p, fs) ==
    IF AssignFails(p, fs)
    THEN /\ Trace[p].after = fs
         /\ Trace[p].value = None
         /\ Trace[p].flow = Trace[p - 1].flow
    ELSE /\ Trace[p].after =
              [fs EXCEPT ![Len(fs)].members[LhsOf(p).name] = Trace[p - 1].value.v]
         /\ Trace[p].value = Trace[p - 1].value
         /\ Trace[p].flow = Continue

\* C21 as stated: the frames are compared with those the Assign began with.
\* Assign evaluates rhs first; when rhs raises a signal or yields no value,
\* lhs is not a VarExpr, the name is not bound in the top frame or there is
\* no frame, every frame is as it was before the Assign and the result is
\* (no value, signal); otherwise only the binding of lhs in the top frame
\* changes.
C21_AssignChangesOneBinding ==
    \A p \in AssignEntries :
        RhsFirst(p) /\ AssignEffect(p, Trace[p].before)

\* C21 amended: the frames are compared with those the evaluation of rhs
\* left.  Beyond what rhs did, Assign writes at most the one binding named
\* by lhs that the top frame already holds, creates no binding and touches
\* no other frame; when it fails the result is (no value, signal of rhs).
C21_AssignChangesOneBindingAfterRhs ==
    \A p \in AssignEntries :
        /\ RhsFirst(p)
        /\ AssignEffect(p, Trace[p - 1].after)
        /\ Len(Trace[p].after) = Len(Trace[p - 1].after)
        /\ \A k \in 1..Len(Trace[p].after) :
              /\ DOMAIN Trace[p].after[k].members
                   = DOMAIN Trace[p - 1].after[k].members
              /\ k < Len(Trace[p].after) =>
                   Trace[p].after[k] = Trace[p - 1].after[k]

\* x = y overwrote the x of main with the value of y, after a right side
\* that wrote y itself left the frame changed in another run
C21_Witness ==
    /\ pc = "executed"
    /\ \E p \in AssignEntries :
          /\ ~AssignFails(p, Trace[p - 1].after)
          /\ Trace[p - 1].node.data.k = "Assign"
          /\ Trace[p - 1].after # Trace[p - 1].before
          /\ Trace[p].after # Trace[p - 1].after
          /\ exit_value = Some(Some(Integer(2)))

VarDeclEntries == {p \in 1..Len(Trace) : Trace[p].node.data.k = "VarDecl"}
TopFrame(fs) == fs[Len(fs)]
\* the initial value of the VarDecl of entry p: that of the node that
\* finished just before it when there is an initialiser, else none
InitialValue(p) ==
    IF Trace[p].node.data.value = NoRef THEN None ELSE Trace[p - 1].value

\* C22: every VarDecl evaluated inside a call yields (no value, Continue)
\* and leaves its name bound in the top frame, with or without an
\* initialiser and whether or not the initialiser produced a value; when
\* it produced one, the name is bound to that value.
C22_VarDeclAlwaysBinds ==
    \A p \in VarDeclEntries :
        Trace[p].after # <<>> =>
            /\ Trace[p].value = None
            /\ Trace[p].flow = Continue
            /\ Trace[p].node.data.name \in DOMAIN TopFrame(Trace[p].after).members
            /\ InitialValue(p).some =>
                  TopFrame(Trace[p].after).members[Trace[p].node.data.name]
                      = InitialValue(p).v

\* what eval_var_decl does: the name is bound to the value when there is
\* one, and the frame is as it was when there is none
C22_VarDeclBindsValuesOnly ==
    \A p \in VarDeclEntries :
        Trace[p].after # <<>> =>
            /\ Trace[p].value = None
            /\ Trace[p].flow = Continue
            /\ IF InitialValue(p).some
               THEN TopFrame(Trace[p].after).members[Trace[p].node.data.name]
                        = InitialValue(p).v
               ELSE Trace[p].after = Trace[p].before

CallEntries == {p \in 1..Len(Trace) : Trace[p].node.data.k = "CallExpr"}

\* the entries of the callee of the call of entry p: the run of entries
\* just before p that finished in a frame above the caller's
RECURSIVE CalleeStart(_, _)
CalleeStart(p, q) ==
    IF q > 1 /\ Trace[q - 1].depth > Trace[p].depth
    THEN CalleeStart(p, q - 1) ELSE q
CalleeEntries(p) == CalleeStart(p, p)..(p - 1)

\* C23: every CallExpr that finishes leaves the frames exactly as it found
\* them, whatever its callee is and however the callee ended; the first
\* node of the callee to finish (nothing was written before it began)
\* began with one new empty frame on top of the caller's, the frames of the
\* caller stay as they are while it runs, a VarExpr reads the top frame
\* only, and when execute finishes the stack is empty.
C23_FrameDiscipline ==
    /\ \A p \in CallEntries :
          /\ Trace[p].after = Trace[p].before
          /\ CalleeEntries(p) # {} =>
                SubSeq(Trace[CalleeStart(p, p)].before, 1, Len(Trace[p].before) + 1)
                    = Append(Trace[p].before, Frame_new)
          /\ \A q \in CalleeEntries(p) :
                /\ SubSeq(Trace[q].before, 1, Len(Trace[p].before)) = Trace[p].before
                /\ SubSeq(Trace[q].after, 1, Len(Trace[p].before)) = Trace[p].before
    /\ \A q \in 1..Len(Trace) :
          Trace[q].node.data.k = "VarExpr" =>
              Trace[q].value =
                  IF /\ Trace[q].before # <<>>
                     /\ Trace[q].node.data.name
                          \in DOMAIN TopFrame(Trace[q].before).members
                  THEN Some(TopFrame(Trace[q].before).members[Trace[q].node.data.name])
                  ELSE None
    /\ pc = "executed" => interp.frames = <<>>

\* main bound x to 0 and called f; f assigned x, which its frame does not
\* hold, and read it as unbound; main then returned its own x, still 0
C23_Witness ==
    /\ pc = "executed"
    /\ exit_value = Some(Some(Integer(0)))
    /\ \E p \in CallEntries :
          /\ Len(Trace[p].before) = 1
          /\ S_x \in DOMAIN TopFrame(Trace[p].before).members
          /\ Trace[p].value = None
          /\ \E q \in CalleeEntries(p) :
                /\ Trace[q].node.data.k = "Assign"
                /\ LhsOf(q).k = "VarExpr" /\ LhsOf(q).name = S_x
                /\ Trace[q].value = None

(***************************************************************************)
(* The table forest (SpecEnv)                                              *)
(***************************************************************************)
\* the tables lookup's loop visits from table_ref on, in the order visited
RECURSIVE ParentChain(_, _)
ParentChain(e, table_ref) ==
    IF table_ref = NoRef THEN <<>>
    ELSE <<table_ref>> \o ParentChain(e, e.tables[table_ref + 1].parent)

TopFirst(stack) == [k \in 1..Len(stack) |-> stack[Len(stack) + 1 - k]]

\* every parent was allocated before its child; the bottom entry of the
\* stack is a root, every other entry is a child of the entry below it;
\* the parent chain from the top is the stack, top first
AncestorPath(e) ==
    /\ \A t \in 1..Len(e.tables) :
          e.tables[t].parent = NoRef
            \/ (e.tables[t].parent >= 0 /\ e.tables[t].parent < t - 1)
    /\ \A k \in 1..Len(e.stack) :
          /\ e.stack[k] >= 0 /\ e.stack[k] < Len(e.tables)
          /\ e.tables[e.stack[k] + 1].parent =
                IF k = 1 THEN NoRef ELSE e.stack[k - 1]
    /\ ParentChain(e, current_table_ref(e)) = TopFirst(e.stack)

\* no step removes a table or changes the parent of one
TablesOnlyGrow ==
    /\ Len(env'.tables) >= Len(env.tables)
    /\ \A t \in 1..Len(env.tables) :
          /\ env'.tables[t].parent = env.tables[t].parent
          /\ env'.tables[t].data = env.tables[t].data

\* C24: in every state reached by push, pop and declare the active stack
\* is an ancestor path of the table forest (root at the bottom, each entry
\* the child of the one below, parents allocated before children), the
\* walk of lookup visits exactly the active tables, top first, and ends,
\* and the table vector only grows.
C24_StackIsAncestorPath ==
    []AncestorPath(env) /\ [][TablesOnlyGrow]_vars

\* a scope was popped and another pushed on its former parent: the popped
\* table is in the vector, off the stack, a sibling of the top
C24_Witness ==
    /\ call.op = "push_scope"
    /\ env.stack = <<0, 2>>
    /\ Len(env.tables) = 3
    /\ env.tables[2].parent = 0
    /\ env.tables[3].parent = 0

(***************************************************************************)
(* Updating a source-file object (SpecUnit)                                *)
(***************************************************************************)
\* what UnparsedSourceFile::new(path, src).parse() gives for the text of
\* the object, and what parse().analyze() gives when it is at hand
FreshParse == ParsedSourceFile(UnitPath, unit.src)
FreshAnalysisAtHand == unit.call = "update" /\ UnitAnalysisReady

UpdatedParse ==
    (unit.call = "update" /\ unit.stage = "Parsed") =>
        /\ unit.ast = FreshParse.ast
        /\ unit.diagnostics = FreshParse.diagnostics
UpdatedAnalysis ==
    (FreshAnalysisAtHand /\ unit.stage \in {"Analyzed", "C"}) =>
        /\ unit.ast = FreshParse.ast
        /\ unit.diagnostics = FreshParse.diagnostics \o sema.diagnostics
        /\ unit.mxir = sema.mxir

\* C25: after update(src) on an object of any stage, the source text, the
\* diagnostics, the AST, the MXIR and, for a CSourceFile, the C text are
\* those a fresh parse, analyze and emit of src give.
C25_UpdateIsFresh ==
    /\ UpdatedParse
    /\ UpdatedAnalysis
    /\ (FreshAnalysisAtHand /\ unit.stage = "C") =>
          unit.c = CEmitter_emit(sema.mxir)

\* what update does: everything but the C text is fresh
C25_UpdateRefreshesAllButC ==
    /\ UpdatedParse
    /\ UpdatedAnalysis

(***************************************************************************)
(* Scope balance of the analyzer (Spec)                                    *)
(***************************************************************************)
\* the scope stack while the top-level statements are lowered: the root
\* scope pushed by analyze_source_file and nothing else
RootScopeOnly == sema.env.stack = <<0>>

\* C26: every scope pushed during analysis is popped by the step that
\* pushed it: between the lowerings of two top-level nodes, and after the
\* lowering of the call of main, the scope stack holds the root scope only,
\* and it is empty when analyze has returned.
C26_ScopesBalanced ==
    /\ pc \in {"body", "entry"} => RootScopeOnly
    /\ pc = "analyzed" => sema.env.stack = <<>>

\* what holds: scopes are balanced in every analysis that reported no
\* InvalidFunctionCall
C26_ScopesBalancedWithoutInvalidCall ==
    DiagCount("InvalidFunctionCall") = 0 => C26_ScopesBalanced

C26_Witness ==
    /\ pc = "analyzed"
    /\ DiagCount("InvalidFunctionCall") = 0
    /\ Len(sema.diagnostics) > 0
    /\ Len(sema.env.tables) > 2

(***************************************************************************)
(* The node kinds of the emitted MXIR (Spec)                               *)
(***************************************************************************)
\* the MxirNodeData variants that sema.rs constructs
EmittedKinds ==
    {"SourceFile", "Nop", "FnDecl", "VarDecl", "ExprStmt", "Return", "Block",
     "IntLiteral", "StringLiteral", "BoolLiteral", "VarExpr"}

MxirOfKind(k) == {n \in 1..Len(sema.mxir) : sema.mxir[n].data.k = k}

HasCallExpr == \E r \in 1..Len(file.ast) : file.ast[r].kind = "call_expr"

\* C27: at every point of an analysis, and so in the MXIR analyze returns,
\* every node is a SourceFile, Nop, FnDecl, VarDecl, ExprStmt, Return,
\* Block, IntLiteral, StringLiteral, BoolLiteral or VarExpr (no Loop, If,
\* Break, Continue, Assign, CallExpr, FloatLiteral or BuiltinFnDecl), and
\* the MXIR of a program without call expressions has at most one FnDecl.
C27_EmittedKinds ==
    /\ \A n \in 1..Len(sema.mxir) : sema.mxir[n].data.k \in EmittedKinds
    /\ ~HasCallExpr => Cardinality(MxirOfKind("FnDecl")) <= 1

\* a completed analysis of a program with several function declarations and
\* no call expression: one FnDecl (main), the other declarations lowered
\* to Nop, with literals and a Return among the nodes
C27_Witness ==
    /\ pc = "analyzed"
    /\ ~HasCallExpr
    /\ Cardinality({r \in 1..Len(file.ast) : file.ast[r].kind = "fn_decl"}) > 1
    /\ Cardinality(MxirOfKind("FnDecl")) = 1
    /\ MxirOfKind("Nop") # {}
    /\ MxirOfKind("Return") # {}
    /\ MxirOfKind("IntLiteral") # {}

(***************************************************************************)
(* Continue in the interpreter (SpecContinue)                              *)
(***************************************************************************)
ContinueEntries == {p \in 1..Len(Trace) : Trace[p].node.data.k = "Continue"}

\* what an execution yields and does: how it ended, the frames and symbols
\* left, and for every evaluation in order the node evaluated, its value and
\* signal and the frames before and after it
Outcome(i) ==
    [panicked |-> i.panicked, hung |-> i.hung, frames |-> i.frames,
     symbols |-> i.symbols,
     trace |-> [p \in 1..Len(i.trace) |->
                  [node |-> i.trace[p].node.self_ref,
                   value |-> i.trace[p].value, flow |-> i.trace[p].flow,
                   before |-> i.trace[p].before, after |-> i.trace[p].after]]]

\* the entries after p of evaluations in the frame of p
LaterInFrame(p) ==
    {q \in (p + 1)..Len(Trace) : Trace[q].depth = Trace[p].depth}

\* the statement after a Continue in a Block is the one evaluated next in
\* the frame (the first evaluation to finish may be in a function that the
\* statement calls)
FollowerRuns(p) ==
    \A mc \in BlocksWithNext(Trace[p].node.self_ref) :
        /\ pc = "executed" => LaterInFrame(p) # {}
        /\ \A q \in LaterInFrame(p) :
              (\A o \in LaterInFrame(p) : q <= o) =>
                 Trace[q].node.self_ref
                     \in Within(sema.mxir[mc[1]].data.children[mc[2] + 1])

\* C28: the evaluation of a Continue node yields no value and the signal
\* Continue and leaves the frames as they are, and the statement after it
\* in the same Block is evaluated next; executing the unit with Continue
\* nodes replaced by Nop ends the same way with the same exit value, and
\* every evaluation in it has the value, the signal and the frames it had
\* in the execution with the Continue nodes.
C28_ContinueIsNop ==
    /\ \A p \in ContinueEntries :
          /\ Trace[p].value = None
          /\ Trace[p].flow = Continue
          /\ Trace[p].after = Trace[p].before
          /\ FollowerRuns(p)
    /\ (call.op = "execute" /\ pc \in {"executed", "crashed", "hung"}) =>
          /\ pc = call.pc
          /\ exit_value = call.exit_value
          /\ Outcome(interp) = Outcome(call.i)

\* both executions of the unit whose loop has `continue; x = 1;` after the
\* test of x have ended with x = 1 returned: the assignment after the
\* Continue ran in the first iteration
C28_Witness ==
    /\ call.op = "execute"
    /\ pc = "executed"
    /\ exit_value = Some(Some(Integer(1)))
    /\ \E p \in 1..Len(call.i.trace) :
          /\ call.i.trace[p].node.data.k = "Continue"
          /\ p < Len(call.i.trace)
          /\ call.i.trace[p + 1].node.data.k = "IntLiteral"
    /\ ContinueEntries = {}

(***************************************************************************)
(* The signal of a call (SpecInterp)                                       *)
(***************************************************************************)
\* C29: every evaluation of a CallExpr that finishes yields the signal
\* Continue, whatever the body of the callee did: no Return and no Break of
\* the callee reaches the caller.
C29_CallYieldsContinue ==
    \A p \in CallEntries : Trace[p].flow = Continue

\* what holds: no CallExpr yields Return
C29_CallHidesReturn ==
    \A p \in CallEntries : Trace[p].flow.t # "Return"

\* a call that yielded Break ended a Loop of the caller
C29_BreakEndsCallersLoop ==
    \E p \in CallEntries :
        /\ Trace[p].flow = Break
        /\ \E q \in (p + 1)..Len(Trace) :
              /\ Trace[q].node.data.k = "Loop"
              /\ Trace[q].depth = Trace[p].depth
              /\ Trace[p].node.self_ref \in Within(Trace[q].node.self_ref)

(***************************************************************************)
(* Concurrent handlers of the language server (SpecServer)                 *)
(***************************************************************************)
Updating == {h \in Handlers : server.handlers[h].pc = "locked"}

\* an update is running only in the handler that holds the mutex
OneAtATime ==
    /\ Cardinality(Updating) <= 1
    /\ \A h \in Handlers : h \in Updating <=> server.lock = h
    /\ (server.files.some /\ pc # "idle") => server.lock # 0

AllDone == \A h \in Handlers : server.handlers[h].pc = "done"

\* C30: the files mutex is held for the whole of every update, so the
\* stored analyses are produced one at a time, and when every handler has
\* finished the diagnostics last published for the document are those of
\* the analysis stored for it.
C30_PublishedIsStored ==
    /\ OneAtATime
    /\ AllDone => server.published = Some(server.files.v.diagnostics)

\* what holds: updates are serialized, and what is published last is what
\* one of the handlers stored
C30_Serialized ==
    /\ OneAtATime
    /\ AllDone =>
          \E h \in Handlers :
              server.published = Some(server.handlers[h].diagnostics)

\* both handlers have finished and the client was last sent the
\* diagnostics of the analysis that was replaced
C30_StalePublished ==
    /\ AllDone
    /\ server.published # Some(server.files.v.diagnostics)

====
